---- MODULE Spec2Model ----
(***************************************************************************)
(* Verification model of the power-capping test bench:                     *)
(*   - the SUT agent's load-generator launcher (agent/src/agent.py),       *)
(*   - the sampling collector (collector/src/Collector.py),                *)
(*   - the orchestration of the collector by its drivers                   *)
(*     (runner/src/Runner.py main, collector/src/test_collector.py),       *)
(*   - the runner's campaigns and trajectories (runner/src/Runner.py       *)
(*     run_campaign, run_test, log_cap_level, log_test_run).               *)
(*                                                                         *)
(* Nine specifications are given.  AgentSpec is the agent alone, serving   *)
(* POST /firestarter requests.  CollectorSpec is the collector thread      *)
(* together with the thread that spawned it, over a discrete wall clock.   *)
(* RunnerSpec is one call of Runner.run_campaign on its own.  MainSpec is  *)
(* Runner.py main: the BMC sessions, the collector thread and the          *)
(* campaigns side by side.  BmcSpec is the session and capping methods of  *)
(* the BMC endpoints called in any order.  RaplSpec is the agent serving   *)
(* one GET /rapl_power, ServeSpec the agent serving two of them and a      *)
(* POST /firestarter.  CapSpec is the power and capping methods of the     *)
(* BMC endpoints called in any order, IpmiSpec one ipmitool command run    *)
(* and parsed by IpmiBMC.run_ipmi_command.                                 *)
(***************************************************************************)
EXTENDS Integers, Sequences, FiniteSets, TLC

(***************************************************************************)
(* Bounds of the model.                                                    *)
(***************************************************************************)
\* number of POST /firestarter requests the agent receives
MaxRequests == 3
\* last instant of the wall clock, in time units
MaxTime == 9
\* longest BMC read (current_power and current_cap_level), in time units
MaxBmcLatency == 2
\* longest agent read (GET /rapl_power), in time units
MaxAgentLatency == 2

\* how long an awaited BMC command or agent request of the runner takes, in
\* time units
RunnerLatency == 1
\* last instant of the wall clock at which the collector thread of main is
\* followed, in time units
MaxSampledTime == 6
\* largest max_energy_range_uj of a package
MaxEnergy == 2
\* last value of the monotonic clock, in sampling windows
MaxMonotonic == 3
\* number of session and capping calls made on the BMC endpoints
MaxBmcCalls == 3
\* lines of output of one ipmitool command
MaxLines == 3

(***************************************************************************)
(* Program constants.                                                      *)
(***************************************************************************)
HTTP_202_ACCEPTED == 202
HTTP_409_CONFLICT == 409
\* One time unit is the agent's RAPL sampling window (RAPL_SAMPLE_TIME_SECS =
\* .25 s), so a second is four units.
UnitsPerSec == 4

\* runner/config.py
warmup_seconds == 15
per_step_runtime_seconds == 30
inter_step_pause_seconds == 5
uncapped_power == 1400
\* class UpDown(Flag)
UpDown_up == 1
UpDown_down == 2
\* the runner's adapter writes a datetime with timespec='milliseconds'
MsPerSec == 1000

\* "no value": Python's None for a handle, "not yet answered" for a request
None == 0

Requests == 1..MaxRequests
\* a GET /rapl_power request and another one
RaplRequests == {1, 2}
\* a launcher thread is identified by the order of its creation
Threads == 1..MaxRequests

VARIABLES
    \* ---- agent (CappingAgent) ----
    firestarter_thread, \* self.firestarter_thread: None or the last thread created
    alive,              \* the launcher threads whose subprocess.run has not returned
    n_started,          \* number of launcher threads created so far
    h_pc,               \* per request: "new", "json" (suspended in await request.json()), "done"
    resp,               \* per request: the status code answered, None before
    spawned,            \* per request: the thread its handler started, None if none
    handle_at_arrival,  \* per request: self.firestarter_thread when its handler began
    busy_at_arrival,    \* per request: was some load generator alive when its handler began
    overlapped          \* per request: the requests suspended in their handler when it began

VARIABLES
    \* ---- wall clock ----
    now,                \* dt.now(UTC), in time units
    \* ---- collector (Collector.start_collect) ----
    freq,               \* the freq argument of start_collect
    do_collect,         \* self.do_collect
    c_pc,               \* "idle", "while", "sleep", "sample_bmc", "sample_agent",
                        \* "returned", "raised"
    c_until,            \* the instant the awaited call of the collector completes
    timestamp,          \* local timestamp of start_collect
    next_collect_timestamp, \* local next_collect_timestamp of start_collect
    round_start,        \* the instant the sample requests of the tick were issued
    bmc_sample,         \* local bmc_sample of start_collect
    n_ticks,            \* number of loop iterations entered
    samples,            \* the ticks stored by save_sample, in order
    c_error,            \* what raised out of start_collect, "none" if nothing
    bmc,                \* the committed rows of table bmc, in insertion order
    rapl,               \* the committed rows of table rapl, in insertion order
    \* ---- the thread that owns the collector ----
    driver,             \* "main" (Runner.py) or "test" (test_collector.py)
    d_pc,               \* "runner_bmc_connect", "collector_bmc_connect",
                        \* "system_info", "spawn", "busy", "end_collect", "join",
                        \* "done", "raised"
    stop_at             \* where the collector stood when the flag was flipped

VARIABLES
    \* ---- runner (Runner.run_campaign, Runner.run_test) ----
    campaigns,          \* the argument lists of the run_campaign calls, in order
    r_ci,               \* number of run_campaign calls entered
    r_pc,               \* where the runner stands: "idle", "next", an awaited
                        \* call of run_test, "rejected", "raised"
    r_until,            \* the instant the awaited call of the runner completes
    r_queue,            \* the run_test calls the loops of run_campaign have yet to make
    r_test,             \* the arguments of the run_test in progress
    r_left,             \* iterations of `for _ in range(n_steps)' yet to run
    cap_level,          \* local cap_level of run_test
    start_time,         \* local start_time of run_test
    r_error,            \* what raised out of the runner, "none" if nothing
    capping_commands,   \* the rows of table capping_commands, in insertion order
    tests,              \* the rows of table tests, in insertion order
    applied,            \* the set_cap_level calls that returned, in order
    launches,           \* the POST /firestarter requests sent, in order
    calls,              \* the run_test calls entered, in order
    returned            \* number of run_test calls that returned

VARIABLES
    \* ---- the BMC endpoints (RedfishBMC, IpmiBMC) and the BMC behind them ----
    bmc_type,           \* the bmc_type argument: "ipmi" or "redfish"
    token,              \* per endpoint: self.token, None for ''
    session_id,         \* per endpoint: self.session_id
    _chassis,           \* per endpoint: self._chassis, None or the fetched chassis names
    bmc_sessions,       \* the sessions the BMC holds open
    bmc_requests,       \* the requests and ipmitool commands the BMC received, in order
    capping_active,     \* has the BMC been told to activate capping
    b_calls,            \* the session and capping calls made on the endpoints, in order
    ipmi_proc,          \* the ipmitool subprocess of run_ipmi_command: where it
                        \* stands, what it printed and the Result made of it
    \* ---- the run database ----
    system_info         \* the rows of table system_info, in insertion order

VARIABLES
    \* ---- agent: GET /rapl_power ----
    sleep_blocks,       \* does the sleep of the sampling window hold the event
                        \* loop: TRUE for agent.py (time.sleep), FALSE for
                        \* agent2.py (asyncio.sleep)
    max_energy,         \* per package: package_info[path]['max_energy']
    monotonic,          \* monotonic_ns(), in sampling windows
    q_pc,               \* per GET /rapl_power request: "none" (not sent), "new",
                        \* "window" (in its sampling window), "done"
    start_values,       \* per GET /rapl_power request: start_values
    package_powers      \* the body of the last /rapl_power response and the
                        \* readings it was computed from, <<>> before

agentVars == <<firestarter_thread, alive, n_started, h_pc, resp, spawned,
               handle_at_arrival, busy_at_arrival, overlapped>>

collectorVars == <<now, freq, do_collect, c_pc, c_until, timestamp,
                   next_collect_timestamp, round_start, bmc_sample, n_ticks, samples,
                   c_error, bmc, rapl, bmc_sample, driver, d_pc, stop_at>>

runnerVars == <<campaigns, r_ci, r_pc, r_until, r_queue, r_test, r_left,
                cap_level, start_time, r_error, capping_commands, tests,
                applied, launches, calls, returned>>

endpointVars == <<bmc_type, token, session_id, _chassis, bmc_sessions,
                  bmc_requests, capping_active, b_calls>>

bmcVars == <<endpointVars, system_info, ipmi_proc>>

raplVars == <<sleep_blocks, max_energy, monotonic, q_pc, start_values,
              package_powers>>

vars == <<agentVars, raplVars, collectorVars, runnerVars, bmcVars>>

(***************************************************************************)
(* The agent: POST /firestarter                                            *)
(***************************************************************************)
AgentInit ==
    /\ firestarter_thread = None
    /\ alive = {}
    /\ n_started = 0
    /\ h_pc = [h \in Requests |-> "new"]
    /\ resp = [h \in Requests |-> None]
    /\ spawned = [h \in Requests |-> None]
    /\ handle_at_arrival = [h \in Requests |-> None]
    /\ busy_at_arrival = [h \in Requests |-> FALSE]
    /\ overlapped = [h \in Requests |-> {}]

\* The event loop runs one handler at a time up to its next await.  A
\* handler held in time.sleep holds the loop with it; one suspended in
\* `await sleep' gives the loop back.
event_loop_free == ~(sleep_blocks /\ \E r \in RaplRequests : q_pc[r] = "window")

\* a handler that takes any stored handle for a running job
is_alive_ignored == TRUE

\* threading.Thread.is_alive() of the stored handle
is_alive == firestarter_thread \in alive

\* The handler up to its first suspension point: the 409 test, the join of
\* the previous (dead) thread, and the suspension in request.json().
firestarter_enter(h) ==
    /\ h_pc[h] = "new"
    /\ event_loop_free
    /\ handle_at_arrival' = [handle_at_arrival EXCEPT ![h] = firestarter_thread]
    /\ busy_at_arrival' = [busy_at_arrival EXCEPT ![h] = (alive # {})]
    /\ overlapped' = [overlapped EXCEPT ![h] = {g \in Requests : h_pc[g] = "json"}]
    /\ IF firestarter_thread # None /\ is_alive
       THEN /\ h_pc' = [h_pc EXCEPT ![h] = "done"]
            /\ resp' = [resp EXCEPT ![h] = HTTP_409_CONFLICT]
       ELSE \* join() of a thread that is not alive returns at once
            /\ h_pc' = [h_pc EXCEPT ![h] = "json"]
            /\ resp' = resp
    /\ UNCHANGED <<firestarter_thread, alive, n_started, spawned>>
    /\ UNCHANGED <<raplVars, collectorVars, runnerVars, bmcVars>>

\* a handler that runs the load generator itself (subprocess.run in the handler,
\* no launcher thread) and answers once it has exited
firestarter_launch_inline(h) ==
    /\ h_pc[h] = "json"
    /\ n_started' = n_started + 1
    /\ firestarter_thread' = n_started + 1
    /\ alive' = alive
    /\ spawned' = [spawned EXCEPT ![h] = n_started + 1]
    /\ resp' = [resp EXCEPT ![h] = HTTP_202_ACCEPTED]
    /\ h_pc' = [h_pc EXCEPT ![h] = "done"]
    /\ UNCHANGED <<handle_at_arrival, busy_at_arrival, overlapped>>
    /\ UNCHANGED <<raplVars, collectorVars, runnerVars, bmcVars>>

\* The handler after request.json() has delivered the body: create and start
\* the launcher thread, store it in the handle, answer 202.
firestarter_launch(h) ==
    /\ h_pc[h] = "json"
    /\ event_loop_free
    /\ n_started' = n_started + 1
    /\ firestarter_thread' = n_started + 1
    /\ alive' = alive \cup {n_started + 1}
    /\ spawned' = [spawned EXCEPT ![h] = n_started + 1]
    /\ resp' = [resp EXCEPT ![h] = HTTP_202_ACCEPTED]
    /\ h_pc' = [h_pc EXCEPT ![h] = "done"]
    /\ UNCHANGED <<handle_at_arrival, busy_at_arrival, overlapped>>
    /\ UNCHANGED <<raplVars, collectorVars, runnerVars, bmcVars>>

\* launch_firestarter: subprocess.run returns (the load generator has exited)
\* and the launcher thread ends.
launch_firestarter_exit(t) ==
    /\ t \in alive
    /\ alive' = alive \ {t}
    /\ UNCHANGED <<firestarter_thread, n_started, h_pc, resp, spawned,
                   handle_at_arrival, busy_at_arrival, overlapped>>
    /\ UNCHANGED <<raplVars, collectorVars, runnerVars, bmcVars>>

AgentNext ==
    \/ \E h \in Requests : firestarter_enter(h)
    \/ \E h \in Requests : firestarter_launch(h)
    \/ \E t \in Threads : launch_firestarter_exit(t)

(***************************************************************************)
(* The BMC endpoints: sessions, chassis and capping activation             *)
(* (BMC/src/redfish_bmc.py, BMC/src/ipmi_bmc.py), and table system_info    *)
(***************************************************************************)
\* the endpoint objects of a run: Runner.bmc and Collector.bmc
Endpoints == {"runner", "collector"}
\* the values of the bmc_type argument
BmcTypes == {"ipmi", "redfish"}
KNOWN_MOTHERBOARDS == {"motherboard", "self", "1"}
\* the chassis lists a BMC answers to GET /Chassis
ChassisLists == {<<"Self">>, <<"Enclosure">>}
\* the answers of the BMC to POST /SessionService/Sessions/
ConnectStatuses == {201, 401}
\* the answers of the BMC to PATCH .../Power/Actions/LimitTrigger
LimitTriggerStatuses == {200, 404, 500}

\* a Python set, as json.dumps meets it
py_set(items) == [type |-> "set", items |-> items]
\* json.dumps: a set is not JSON serializable (TypeError)
json_serializable(value) == value.type # "set"
\* line 187: cap_dict = {f'PowerLimitTrigger': {operation}}, a dict whose
\* value is the set {operation}
cap_dict(operation) == [PowerLimitTrigger |-> py_set({operation})]

\* str.lower on the chassis names of ChassisLists
lower(s) ==
    CASE s = "Self" -> "self"
      [] s = "Enclosure" -> "enclosure"

\* RedfishBMC.motherboard: the first known chassis; falling off the loop
\* returns None, which the f-string of the endpoint renders as 'None'
motherboard(chassis) ==
    LET known == {i \in 1..Len(chassis) : lower(chassis[i]) \in KNOWN_MOTHERBOARDS}
    IN  IF known = {} THEN "None"
        ELSE chassis[CHOOSE i \in known : \A j \in known : i <= j]

\* a fetched chassis list that is not kept
uncached_chassis(names) == [cached |-> FALSE, names |-> names]

\* self._chassis = None, and self._chassis holding a fetched list
no_chassis == [cached |-> FALSE, names |-> <<>>]
cached_chassis(names) == [cached |-> TRUE, names |-> names]

\* ---- the text ipmitool prints, and IpmiBMC.run_ipmi_command's parser ----
\* A line of text is a sequence of atoms: ":" and " " stand for themselves, a
\* decimal digit is an atom of its own, and any other atom is a run of
\* letters.
Digits == <<"0", "1", "2", "3", "4", "5", "6", "7", "8", "9">>
digit(c) == (CHOOSE d \in 1..Len(Digits) : Digits[d] = c) - 1

\* str(n) for n >= 0, as the f-string of set_limit and the BMC's firmware
\* print a number
RECURSIVE str(_)
str(n) ==
    IF n < Len(Digits) THEN <<Digits[n + 1]>>
    ELSE Append(str(n \div Len(Digits)), Digits[(n % Len(Digits)) + 1])

\* can int() convert the word: it is a non-empty run of digits
isdecimal(word) ==
    /\ word # <<>>
    /\ \A i \in 1..Len(word) : \E d \in 1..Len(Digits) : Digits[d] = word[i]
\* int(word) for a word int() can convert
RECURSIVE int(_)
int(word) ==
    IF Len(word) = 1 THEN digit(word[1])
    ELSE Len(Digits) * int(SubSeq(word, 1, Len(word) - 1)) + digit(word[Len(word)])

\* str.strip(): leading and trailing whitespace removed
strip(s) ==
    LET inked == {i \in 1..Len(s) : s[i] # " "}
    IN  IF inked = {} THEN <<>>
        ELSE SubSeq(s, CHOOSE i \in inked : \A j \in inked : i <= j,
                       CHOOSE i \in inked : \A j \in inked : j <= i)

\* str.split(sep): the text between the occurrences of sep, every one of them
RECURSIVE split(_, _)
split(s, sep) ==
    LET at == {i \in 1..Len(s) : s[i] = sep}
    IN  IF at = {} THEN <<s>>
        ELSE LET first == CHOOSE i \in at : \A j \in at : i <= j
             IN  <<SubSeq(s, 1, first - 1)>> \o split(SubSeq(s, first + 1, Len(s)), sep)

\* str.split() without argument: the words between runs of whitespace
RECURSIVE split_whitespace(_)
split_whitespace(s) ==
    LET t == strip(s)
        at == {i \in 1..Len(t) : t[i] = " "}
    IN  IF t = <<>> THEN <<>>
        ELSE IF at = {} THEN <<t>>
        ELSE LET first == CHOOSE i \in at : \A j \in at : i <= j
             IN  <<SubSeq(t, 1, first - 1)>>
                 \o split_whitespace(SubSeq(t, first + 1, Len(t)))

\* lines 127-131 of run_ipmi_command: the dict comprehension
\*   {f[0].strip(): f[1].strip()
\*    for f in [line.split(':') for line in stdout.splitlines()] if len(f) == 2}
\* as a function from the keys to their values; a later line replaces the
\* value an earlier line gave its key.
ipmi_fields(lines) ==
    LET f == [i \in 1..Len(lines) |-> split(lines[i], ":")]
        kept == {i \in 1..Len(lines) : Len(f[i]) = 2}
        keys == {strip(f[i][1]) : i \in kept}
    IN  [k \in keys |->
            LET of_k == {i \in kept : strip(f[i][1]) = k}
                last == CHOOSE i \in of_k : \A j \in of_k : j <= i
            IN  strip(f[last][2])]

\* Result(ok=..., bmc_dict=...), lines 10-17; bmc_dict defaults to {}, the
\* function of no key, <<>>
Result(is_ok, bmc_dict) == [ok |-> is_ok, bmc_dict |-> bmc_dict]

\* lines 119-133 of run_ipmi_command, once proc.communicate() has returned
run_ipmi_command(stdout, stderr) ==
    IF stderr # <<>> THEN Result(FALSE, <<>>)
    ELSE Result(TRUE, ipmi_fields(stdout))

\* the keys and values the DCMI power commands are read for
Current_Limit_State == <<"Current", " ", "Limit", " ", "State">>
No_Active_Power_Limit == <<"No", " ", "Active", " ", "Power", " ", "Limit">>
Power_Limit == <<"Power", " ", "Limit">>

\* what `ipmitool dcmi power get_limit' prints for a BMC whose capping is or
\* is not active and which holds the given limit
get_limit_stdout(active, limit) ==
    <<<<" ">> \o Current_Limit_State \o <<":", " ">>
         \o (IF active THEN Power_Limit \o <<" ", "Active">>
             ELSE No_Active_Power_Limit),
      <<" ">> \o Power_Limit \o <<":", " ", " ">> \o str(limit) \o <<" ", "Watts">>,
      <<" ", "Sampling", " ", "period", ":", " ">> \o str(1) \o <<" ", "seconds">>>>

\* a current_cap_level that reads 'Power Limit' whatever the limit state is
ipmi_current_cap_level_any_state(result) ==
    [outcome |-> "returned",
     value |-> int(split_whitespace(result.bmc_dict[Power_Limit])[1])]

\* IpmiBMC.current_cap_level, lines 57-69, on the Result of get_limit: panic
\* raises RuntimeError; None for 'No Active Power Limit'; a missing 'Power
\* Limit' raises AttributeError (None.split), a value that is not two words
\* or whose first word is no number raises ValueError.
ipmi_current_cap_level(result) ==
    LET d == result.bmc_dict
    IN  IF ~result.ok THEN [outcome |-> "RuntimeError", value |-> None]
        ELSE IF Current_Limit_State \in DOMAIN d
                /\ d[Current_Limit_State] = No_Active_Power_Limit
        THEN [outcome |-> "returned", value |-> None]
        ELSE IF Power_Limit \notin DOMAIN d
        THEN [outcome |-> "AttributeError", value |-> None]
        ELSE LET words == split_whitespace(d[Power_Limit])
             IN  IF Len(words) # 2 \/ ~isdecimal(words[1])
                 THEN [outcome |-> "ValueError", value |-> None]
                 ELSE [outcome |-> "returned", value |-> int(words[1])]

\* no ipmitool subprocess was created
no_ipmi_proc ==
    [pc |-> "none", stdout |-> <<>>, stderr |-> <<>>,
     result |-> Result(FALSE, <<>>)]

\* the endpoints and the BMC before any call
BmcInit(types, actives) ==
    /\ bmc_type \in types
    /\ token = [e \in Endpoints |-> None]
    /\ session_id = [e \in Endpoints |-> None]
    /\ _chassis = [e \in Endpoints |-> no_chassis]
    /\ bmc_sessions = {}
    /\ bmc_requests = <<>>
    /\ capping_active \in actives
    /\ b_calls = <<>>
    /\ system_info = <<>>
    /\ ipmi_proc = no_ipmi_proc

\* a request or ipmitool command the BMC received, and what it answered
request(e, method, path, session, status) ==
    [by |-> e, method |-> method, path |-> path, session |-> session,
     status |-> status]

\* a call on endpoint e is over: how it ended, the requests it sent, the last
\* of them with its answer, the session fields the call left behind, and the
\* argument and the result of a call that has one
b_result(op, e, outcome, arg, result) ==
    LET sent == Len(bmc_requests') - Len(bmc_requests)
    IN  b_calls' = Append(b_calls,
                          [op |-> op, by |-> e, outcome |-> outcome, sent |-> sent,
                           method |-> IF sent = 0 THEN "none"
                                      ELSE bmc_requests'[Len(bmc_requests')].method,
                           status |-> IF sent = 0 THEN None
                                      ELSE bmc_requests'[Len(bmc_requests')].status,
                           token |-> token'[e], session_id |-> session_id'[e],
                           main_at |-> d_pc, arg |-> arg, result |-> result])

\* a call without argument whose result is None
b_call(op, e, outcome) == b_result(op, e, outcome, None, None)

\* r.ok and `200 <= r.status < 300'
ok(status) == 200 <= status /\ status < 300

\* RedfishBMC.connect, lines 26-44: POST the credentials; a 2xx answer carries
\* the token and the id of a new session, any other answer raises.
connect(e) ==
    LET id == Len(bmc_requests) + 1
    IN  /\ \E status \in ConnectStatuses :
              /\ bmc_requests' =
                    Append(bmc_requests, request(e, "POST", "Sessions", None, status))
              /\ IF ok(status)
                 THEN /\ bmc_sessions' = bmc_sessions \cup {id}
                      /\ token' = [token EXCEPT ![e] = id]
                      /\ session_id' = [session_id EXCEPT ![e] = id]
                      /\ b_call("connect", e, "returned")
                 ELSE /\ UNCHANGED <<bmc_sessions, token, session_id>>
                      /\ b_call("connect", e, "RuntimeError")
        /\ UNCHANGED <<_chassis, capping_active>>

\* RedfishBMC.disconnect, lines 46-55: DELETE Sessions/{self.session_id} is
\* sent whatever the endpoint holds; the BMC drops the session if it has it
\* (204), any other answer is only printed.  self.token and self.session_id
\* are left as they are.
disconnect(e) ==
    /\ bmc_requests' =
          Append(bmc_requests,
                 request(e, "DELETE", "Sessions", session_id[e],
                         IF session_id[e] \in bmc_sessions THEN 204 ELSE 404))
    /\ bmc_sessions' = bmc_sessions \ {session_id[e]}
    /\ UNCHANGED <<token, session_id, _chassis, capping_active>>
    /\ b_call("disconnect", e, "returned")

\* RedfishBMC.do_set_capping, lines 172-211.  Line 185 awaits
\* self.motherboard, which fetches the chassis list unless it is cached (lines
\* 65-85, RuntimeError if the answer is not ok).  Line 189 formats
\* json.dumps(cap_dict) into its debug message before any request is made.
\* Lines 195-208: PATCH; 404 returns None, any other answer that is not ok
\* raises.
redfish_do_set_capping(e, operation, op) ==
    \/ /\ ~_chassis[e].cached
       /\ bmc_requests' =
             Append(bmc_requests, request(e, "GET", "Chassis", None, 500))
       /\ UNCHANGED <<_chassis, capping_active>>
       /\ b_call(op, e, "RuntimeError")
    \/ \E fetched \in ChassisLists :
          LET all_chassis == IF _chassis[e].cached THEN _chassis[e].names ELSE fetched
              listed == IF ~_chassis[e].cached
                        THEN Append(bmc_requests,
                                    request(e, "GET", "Chassis", None, 200))
                        ELSE bmc_requests
          IN  /\ _chassis' = [_chassis EXCEPT ![e] = cached_chassis(all_chassis)]
              /\ IF ~json_serializable(cap_dict(operation).PowerLimitTrigger)
                 THEN /\ bmc_requests' = listed
                      /\ UNCHANGED capping_active
                      /\ b_call(op, e, "TypeError")
                 ELSE \E status \in LimitTriggerStatuses :
                         /\ bmc_requests' =
                               Append(listed,
                                      request(e, "PATCH", motherboard(all_chassis),
                                              None, status))
                         /\ capping_active' =
                               IF ok(status) THEN operation = "Activate"
                               ELSE capping_active
                         /\ b_call(op, e, IF ok(status) \/ status = 404
                                          THEN "returned" ELSE "RuntimeError")

\* IpmiBMC.activate_capping and deactivate_capping, lines 81-93: run the DCMI
\* command, panic (RuntimeError) if it failed.  The status is the command's:
\* 0, or 1 with something on stderr.
ipmi_do_set_capping(e, operation, op) ==
    /\ UNCHANGED _chassis
    /\ \E failed \in {0, 1} :
          /\ bmc_requests' =
                Append(bmc_requests, request(e, "ipmitool", operation, None, failed))
          /\ IF failed = 0
             THEN /\ capping_active' = (operation = "Activate")
                  /\ b_call(op, e, "returned")
             ELSE /\ UNCHANGED capping_active
                  /\ b_call(op, e, "RuntimeError")

\* the calls a holder of endpoints has made so far are bounded
more_calls == Len(b_calls) < MaxBmcCalls

\* await bmc.connect() on a Redfish endpoint
bmc_connect_call(e) ==
    /\ more_calls
    /\ bmc_type = "redfish"
    /\ connect(e)
    /\ UNCHANGED <<bmc_type, system_info, ipmi_proc>>
    /\ UNCHANGED <<raplVars, agentVars, collectorVars, runnerVars>>

\* await bmc.disconnect() on a Redfish endpoint
bmc_disconnect_call(e) ==
    /\ more_calls
    /\ bmc_type = "redfish"
    /\ disconnect(e)
    /\ UNCHANGED <<bmc_type, system_info, ipmi_proc>>
    /\ UNCHANGED <<raplVars, agentVars, collectorVars, runnerVars>>

\* await bmc.activate_capping()
activate_capping(e) ==
    /\ more_calls
    /\ UNCHANGED <<bmc_type, token, session_id, bmc_sessions, system_info, ipmi_proc>>
    /\ IF bmc_type = "redfish"
       THEN redfish_do_set_capping(e, "Activate", "activate_capping")
       ELSE ipmi_do_set_capping(e, "Activate", "activate_capping")
    /\ UNCHANGED <<raplVars, agentVars, collectorVars, runnerVars>>

\* await bmc.deactivate_capping()
deactivate_capping(e) ==
    /\ more_calls
    /\ UNCHANGED <<bmc_type, token, session_id, bmc_sessions, system_info, ipmi_proc>>
    /\ IF bmc_type = "redfish"
       THEN redfish_do_set_capping(e, "Deactivate", "deactivate_capping")
       ELSE ipmi_do_set_capping(e, "Deactivate", "deactivate_capping")
    /\ UNCHANGED <<raplVars, agentVars, collectorVars, runnerVars>>

BmcNext ==
    \/ \E e \in Endpoints : bmc_connect_call(e)
    \/ \E e \in Endpoints : bmc_disconnect_call(e)
    \/ \E e \in Endpoints : activate_capping(e)
    \/ \E e \in Endpoints : deactivate_capping(e)

\* lines of text an ipmitool may print: an indented 'Key: value' line, a line
\* that gives a key a second value, a line whose value holds a ':' (the
\* timestamp of `dcmi power reading'), a line without ':', and the limit state
IpmiLines ==
    {<<" ", " ">> \o Power_Limit \o <<":", " ", " ">> \o str(600) \o <<" ", "Watts">>,
     Power_Limit \o <<" ", ":">> \o str(400) \o <<" ", "Watts", " ">>,
     <<"IPMI", " ", "timestamp", ":", " ", "Thu", " ">> \o str(12) \o <<":">> \o str(34),
     <<"Sampling", " ", "period">>,
     Current_Limit_State \o <<":", " ">> \o No_Active_Power_Limit}

\* what an ipmitool may print: up to MaxLines lines
IpmiStdouts == UNION {[1..n -> IpmiLines] : n \in 0..MaxLines}

\* run_ipmi_command, lines 114-117: asyncio.create_subprocess_exec
create_subprocess_exec ==
    /\ bmc_type = "ipmi"
    /\ ipmi_proc.pc = "none"
    /\ ipmi_proc' = [ipmi_proc EXCEPT !.pc = "running"]
    /\ UNCHANGED <<endpointVars, system_info>>
    /\ UNCHANGED <<raplVars, agentVars, collectorVars, runnerVars>>

\* line 118: stdout, stderr = await proc.communicate(); stderr is empty or
\* holds a diagnostic
communicate ==
    /\ ipmi_proc.pc = "running"
    /\ \E stdout \in IpmiStdouts, stderr \in {<<>>, <<"Error">>} :
          ipmi_proc' = [ipmi_proc EXCEPT !.pc = "exited", !.stdout = stdout,
                                         !.stderr = stderr]
    /\ UNCHANGED <<endpointVars, system_info>>
    /\ UNCHANGED <<raplVars, agentVars, collectorVars, runnerVars>>

\* lines 119-133: the Result is built and returned
run_ipmi_command_return ==
    /\ ipmi_proc.pc = "exited"
    /\ ipmi_proc' = [ipmi_proc EXCEPT
                        !.pc = "returned",
                        !.result = run_ipmi_command(ipmi_proc.stdout, ipmi_proc.stderr)]
    /\ UNCHANGED <<endpointVars, system_info>>
    /\ UNCHANGED <<raplVars, agentVars, collectorVars, runnerVars>>

IpmiNext ==
    \/ create_subprocess_exec
    \/ communicate
    \/ run_ipmi_command_return

\* ---- the power limit of the BMC ----
\* the limit the BMC holds: that of the last set_cap_level that returned, and
\* before any of them the limit it was left with, taken to be uncapped_power
bmc_limit ==
    IF applied = <<>> THEN uncapped_power ELSE applied[Len(applied)].cap_level

\* the JSON body a Redfish BMC answers to GET .../Chassis/{motherboard}/Power
power_body(limit) == [PowerControl |-> <<[PowerLimit |-> [LimitInWatts |-> limit]]>>]
\* RedfishBMC.current_cap_level, lines 140-146, on the body of an answer that
\* is ok: PowerControl[0].PowerLimit.LimitInWatts
redfish_current_cap_level(json_body) ==
    [outcome |-> "returned",
     value |-> json_body.PowerControl[1].PowerLimit.LimitInWatts]

\* await self.bmc.current_cap_level on a BMC that answers: the Redfish
\* endpoint reads the Power resource, the IPMI endpoint runs get_limit (with
\* nothing on stderr) and reads the Result
current_cap_level ==
    IF bmc_type = "redfish"
    THEN redfish_current_cap_level(power_body(bmc_limit))
    ELSE ipmi_current_cap_level(
             run_ipmi_command(get_limit_stdout(capping_active, bmc_limit), <<>>))

\* the watts a caller passes to set_cap_level
CapLevels == {400, 1000}

\* a set_cap_level that returned has left the BMC with the limit
bmc_holds(cap) == applied' = Append(applied, [at |-> now, cap_level |-> cap])

\* RedfishBMC.current_power (lines 98-118), current_cap_level (120-146) and
\* set_cap_level (148-170): each awaits self.motherboard, which fetches the
\* chassis list unless it is cached (lines 57-85, RuntimeError if the answer
\* is not ok, and then nothing is cached), then sends one request to
\* .../Chassis/{motherboard}/Power and raises RuntimeError if the answer is
\* not ok.  A BMC has no chassis 'None'.  The watts current_power reads are
\* not modelled.
redfish_power(e, op, method, new_cap_level) ==
    \/ /\ ~_chassis[e].cached
       /\ bmc_requests' =
             Append(bmc_requests, request(e, "GET", "Chassis", None, 500))
       /\ UNCHANGED <<_chassis, applied>>
       /\ b_result(op, e, "RuntimeError", new_cap_level, None)
    \/ \E fetched \in ChassisLists, answer \in {200, 500} :
          LET all_chassis == IF _chassis[e].cached THEN _chassis[e].names ELSE fetched
              listed == IF ~_chassis[e].cached
                        THEN Append(bmc_requests,
                                    request(e, "GET", "Chassis", None, 200))
                        ELSE bmc_requests
              status == IF motherboard(all_chassis) = "None" THEN 404 ELSE answer
          IN  /\ _chassis' = [_chassis EXCEPT ![e] = cached_chassis(all_chassis)]
              /\ bmc_requests' =
                    Append(listed, request(e, method, motherboard(all_chassis),
                                           None, status))
              /\ IF method = "PATCH" /\ ok(status)
                 THEN bmc_holds(new_cap_level) ELSE UNCHANGED applied
              /\ b_result(op, e, IF ok(status) THEN "returned" ELSE "RuntimeError",
                          new_cap_level,
                          IF ok(status) /\ op = "current_cap_level"
                          THEN redfish_current_cap_level(power_body(bmc_limit)).value
                          ELSE None)

\* IpmiBMC.current_power (lines 46-55), current_cap_level (57-69) and
\* set_cap_level (71-79): run the DCMI command, panic (RuntimeError) if it
\* wrote to stderr.  The watts current_power reads are not modelled.
ipmi_power(e, op, command, new_cap_level) ==
    /\ UNCHANGED _chassis
    /\ \E failed \in {0, 1} :
          LET result == IF failed = 0
                        THEN run_ipmi_command(
                                 get_limit_stdout(capping_active, bmc_limit), <<>>)
                        ELSE run_ipmi_command(<<>>, <<"Error">>)
              cap == ipmi_current_cap_level(result)
          IN  /\ bmc_requests' =
                    Append(bmc_requests, request(e, "ipmitool", command, None, failed))
              /\ IF command = "set_limit" /\ failed = 0
                 THEN bmc_holds(new_cap_level) ELSE UNCHANGED applied
              /\ IF op = "current_cap_level"
                 THEN b_result(op, e, cap.outcome, new_cap_level, cap.value)
                 ELSE b_result(op, e, IF failed = 0 THEN "returned" ELSE "RuntimeError",
                               new_cap_level, None)

\* a call of one of the three power methods of an endpoint
bmc_power(e, op, method, command, new_cap_level) ==
    /\ more_calls
    /\ UNCHANGED <<bmc_type, token, session_id, bmc_sessions, capping_active,
                   system_info, ipmi_proc>>
    /\ IF bmc_type = "redfish"
       THEN redfish_power(e, op, method, new_cap_level)
       ELSE ipmi_power(e, op, command, new_cap_level)
    /\ UNCHANGED <<campaigns, r_ci, r_pc, r_until, r_queue, r_test, r_left, cap_level,
                   start_time, r_error, capping_commands, tests, launches, calls,
                   returned>>
    /\ UNCHANGED <<raplVars, agentVars, collectorVars>>

\* await bmc.current_power
bmc_current_power(e) == bmc_power(e, "current_power", "GET", "reading", None)

\* await bmc.current_cap_level
bmc_current_cap_level(e) ==
    bmc_power(e, "current_cap_level", "GET", "get_limit", None)

\* await bmc.set_cap_level(new_cap_level)
bmc_set_cap_level(e) ==
    \E new_cap_level \in CapLevels :
       bmc_power(e, "set_cap_level", "PATCH", "set_limit", new_cap_level)

CapNext ==
    \/ \E e \in Endpoints : activate_capping(e)
    \/ \E e \in Endpoints : deactivate_capping(e)
    \/ \E e \in Endpoints : bmc_current_power(e)
    \/ \E e \in Endpoints : bmc_current_cap_level(e)
    \/ \E e \in Endpoints : bmc_set_cap_level(e)

\* one row of table system_info: who inserted it and the bmc_type it carries
\* (Runner.bmc_type spells IPMI 'impi', Collector.bmc_type 'ipmi')
system_info_row(by) ==
    [by |-> by,
     bmc_type |-> IF bmc_type = "redfish" THEN "redfish"
                  ELSE IF by = "runner" THEN "impi" ELSE "ipmi"]

\* collect_system_information (Runner.py 62-88, Collector.py 124-139) with an
\* agent that answered GET /system_info: a status below 300 inserts one row,
\* any other is only reported.
collect_system_information(by, status) ==
    system_info' = IF status < 300
                   THEN Append(system_info, system_info_row(by))
                   ELSE system_info

\* the answers of the agent to GET /system_info
SystemInfoStatuses == {200, 500}

\* the dict sample_bmc returned is not there before the first tick
no_bmc_sample == [bmc_cap_level |-> None]

(***************************************************************************)
(* The collector: start_collect, end_collect, and the thread that owns it  *)
(***************************************************************************)
\* the freq arguments explored (the default is 1)
Freqs == {1, 2}
\* how long the two BMC reads of sample_bmc take together
BmcLatency == 0..MaxBmcLatency
\* how long GET /rapl_power takes: at least the agent's sampling window
AgentLatency == 1..MaxAgentLatency
\* the exceptions a failed read raises out of the loop
ReadErrors == {"bmc", "agent", "agent_status"}

\* sample_interval = timedelta(seconds=1 / freq), in time units
sample_interval == UnitsPerSec \div freq

CollectorInit ==
    /\ now = 0
    /\ freq \in Freqs
    /\ do_collect = TRUE
    /\ c_pc = "idle"
    /\ c_until = 0
    /\ timestamp = 0
    /\ next_collect_timestamp = 0
    /\ round_start = 0
    /\ bmc_sample = no_bmc_sample
    /\ n_ticks = 0
    /\ samples = <<>>
    /\ c_error = "none"
    /\ bmc = <<>>
    /\ rapl = <<>>
    /\ driver \in {"main", "test"}
    /\ d_pc = "spawn"
    /\ stop_at = "none"

\* lines 94 and 96: next_collect_timestamp = timestamp + sample_interval, then
\* the two BMC reads are issued and awaited.
issue_sample ==
    /\ next_collect_timestamp' = timestamp' + sample_interval
    /\ round_start' = now
    /\ c_pc' = "sample_bmc"
    /\ \E d \in BmcLatency : c_until' = now + d

\* threading.Thread(target=asyncio.run, args=(collector.start_collect(),)).start():
\* start_collect runs up to its loop.  Line 86 awaits
\* collect_system_information, which raises if the agent cannot be reached;
\* line 88 is next_collect_timestamp = dt.now(UTC).
collect_thread_start ==
    /\ d_pc = "spawn"
    /\ c_pc = "idle"
    /\ d_pc' = "busy"
    /\ \/ /\ \E status \in SystemInfoStatuses :
                collect_system_information("collector", status)
          /\ c_pc' = "while"
          /\ next_collect_timestamp' = now
          /\ UNCHANGED c_error
       \/ /\ c_pc' = "raised"
          /\ c_error' = "agent"
          /\ UNCHANGED <<next_collect_timestamp, system_info>>
    /\ UNCHANGED <<now, freq, do_collect, c_until, timestamp, round_start,
                   n_ticks, samples, driver, stop_at>>
    /\ UNCHANGED <<bmc, rapl, bmc_sample>>
    /\ UNCHANGED <<raplVars, agentVars, runnerVars, endpointVars, ipmi_proc>>

\* a loop that tests nothing (`while True:')
start_collect_forever ==
    /\ c_pc = "while"
    /\ n_ticks' = n_ticks + 1
    /\ timestamp' = now
    /\ IF next_collect_timestamp - now > 0
       THEN /\ c_pc' = "sleep"
            /\ c_until' = next_collect_timestamp
            /\ UNCHANGED <<next_collect_timestamp, round_start>>
       ELSE issue_sample
    /\ UNCHANGED <<now, freq, do_collect, samples, c_error, driver, d_pc, stop_at>>
    /\ UNCHANGED <<bmc, rapl, bmc_sample>>
    /\ UNCHANGED <<raplVars, agentVars, runnerVars, bmcVars>>

\* `while self.do_collect:' and the head of an iteration, lines 90-94: take
\* the timestamp, then sleep until next_collect_timestamp if it lies ahead.
start_collect_while ==
    /\ c_pc = "while"
    /\ IF ~do_collect
       THEN /\ c_pc' = "returned"
            /\ UNCHANGED <<c_until, timestamp, next_collect_timestamp,
                           round_start, n_ticks>>
       ELSE /\ n_ticks' = n_ticks + 1
            /\ timestamp' = now
            /\ IF next_collect_timestamp - now > 0
               THEN /\ c_pc' = "sleep"
                    /\ c_until' = next_collect_timestamp
                    /\ UNCHANGED <<next_collect_timestamp, round_start>>
               ELSE issue_sample
    /\ UNCHANGED <<now, freq, do_collect, samples, c_error, driver, d_pc, stop_at>>
    /\ UNCHANGED <<bmc, rapl, bmc_sample>>
    /\ UNCHANGED <<raplVars, agentVars, runnerVars, bmcVars>>

\* asyncio.sleep(sleep_time) is over, lines 93-96.
start_collect_wake ==
    /\ c_pc = "sleep"
    /\ now >= c_until
    /\ timestamp' = timestamp
    /\ issue_sample
    /\ UNCHANGED <<now, freq, do_collect, n_ticks, samples, c_error, driver,
                   d_pc, stop_at>>
    /\ UNCHANGED <<bmc, rapl, bmc_sample>>
    /\ UNCHANGED <<raplVars, agentVars, runnerVars, bmcVars>>

\* sample_bmc returns or raises (BMC.current_power and current_cap_level raise
\* RuntimeError on a failed read); on return the agent read is issued.  The
\* returned dict is kept for its 'bmc_cap_level', which save_bmc_sample binds
\* to column cap_level (None is stored as NULL).
sample_bmc ==
    /\ c_pc = "sample_bmc"
    /\ now >= c_until
    /\ \/ /\ current_cap_level.outcome = "returned"
          /\ bmc_sample' = [bmc_cap_level |-> current_cap_level.value]
          /\ c_pc' = "sample_agent"
          /\ \E d \in AgentLatency : c_until' = now + d
          /\ c_error' = c_error
       \/ /\ c_pc' = "raised"
          /\ c_error' = "bmc"
          /\ c_until' = c_until
          /\ bmc_sample' = bmc_sample
    /\ UNCHANGED <<now, freq, do_collect, timestamp, next_collect_timestamp,
                   round_start, n_ticks, samples, driver, d_pc, stop_at>>
    /\ UNCHANGED <<bmc, rapl>>
    /\ UNCHANGED <<raplVars, agentVars, runnerVars, bmcVars>>

\* the keys of the JSON body of GET /rapl_power: one per CPU package
Packages == <<"package-0", "package-1">>

\* the rows save_bmc_sample and save_agent_sample insert for the tick: both
\* bind the `timestamp' argument of save_sample
bmc_rows ==
    <<[timestamp |-> timestamp, cap_level |-> bmc_sample.bmc_cap_level]>>
rapl_rows ==
    [p \in 1..Len(Packages) |-> [timestamp |-> timestamp, package |-> Packages[p]]]

\* db.execute('commit'), line 145: the rows inserted since 'begin' become
\* visible together.
commit(b_rows, r_rows) ==
    /\ bmc' = bmc \o b_rows
    /\ rapl' = rapl \o r_rows

\* a connection that commits every insert as it is executed
autocommit(b_rows, r_rows) ==
    /\ bmc' = bmc \o b_rows
    /\ rapl' = rapl \o r_rows

\* An exception between 'begin' (line 142) and 'commit' leaves start_collect
\* through `with sqlite3.connect(self.db_file) as db:' (line 89), which rolls
\* the open transaction back: the rows inserted since 'begin' are discarded.
rollback(b_rows, r_rows) ==
    /\ bmc' = bmc
    /\ rapl' = rapl

\* save_sample(db, timestamp, bmc_sample, agent_sample): the rows of the tick
\* are stored under `timestamp'; agent_sample = None raises AttributeError in
\* save_agent_sample (after the bmc row was inserted), and an insert may raise
\* a store error after any number of the tick's rows.  `samples' logs the
\* timestamp start_collect passes to save_sample, how long the tick slept and
\* how long its round took; how the store encodes the timestamp (the adapters
\* registered at lines 20-21) is not modelled, and an exception raised while
\* binding it counts among the store errors.
save_sample(agent_sample) ==
    \/ /\ agent_sample = "rapl_data"
       /\ commit(bmc_rows, rapl_rows)
       /\ samples' = Append(samples, [ts |-> timestamp,
                                      slept |-> round_start - timestamp,
                                      round |-> now - round_start])
       /\ c_pc' = "while"
       /\ c_error' = c_error
    \/ /\ agent_sample = "rapl_data"
       /\ \E n_bmc \in 0..1, n_rapl \in 0..Len(Packages) :
             /\ n_bmc = 0 => n_rapl = 0
             /\ rollback(SubSeq(bmc_rows, 1, n_bmc), SubSeq(rapl_rows, 1, n_rapl))
       /\ samples' = samples
       /\ c_pc' = "raised"
       /\ c_error' = "store"
    \/ /\ agent_sample = "None"
       /\ rollback(bmc_rows, <<>>)
       /\ samples' = samples
       /\ c_pc' = "raised"
       /\ c_error' = "agent_status"

\* sample_agent returns the JSON body (status < 300), returns None (any other
\* status) or raises (transport error); then save_sample runs, lines 97-98.
sample_agent ==
    /\ c_pc = "sample_agent"
    /\ now >= c_until
    /\ \/ \E agent_sample \in {"rapl_data", "None"} : save_sample(agent_sample)
       \/ /\ c_pc' = "raised"
          /\ c_error' = "agent"
          /\ samples' = samples
          /\ UNCHANGED <<bmc, rapl>>
    /\ UNCHANGED bmc_sample
    /\ UNCHANGED <<now, freq, do_collect, c_until, timestamp,
                   next_collect_timestamp, round_start, n_ticks, driver, d_pc,
                   stop_at>>
    /\ UNCHANGED <<raplVars, agentVars, runnerVars, bmcVars>>

\* Collector.end_collect, lines 100-101: the body of the coroutine.
end_collect ==
    /\ do_collect' = FALSE
    /\ stop_at' = c_pc

\* Runner.py main, lines 281-287: the two campaigns have run.
run_campaign ==
    /\ driver = "main"
    /\ d_pc = "busy"
    /\ d_pc' = "end_collect"
    /\ UNCHANGED <<now, freq, do_collect, c_pc, c_until, timestamp,
                   next_collect_timestamp, round_start, n_ticks, samples,
                   c_error, driver, stop_at>>
    /\ UNCHANGED <<bmc, rapl, bmc_sample>>
    /\ UNCHANGED <<raplVars, agentVars, runnerVars, bmcVars>>

\* Runner.py main, line 290: `collector.end_collect()' creates the coroutine
\* object and drops it; it is never awaited, so its body never runs.
main_end_collect ==
    /\ driver = "main"
    /\ d_pc = "end_collect"
    /\ d_pc' = "join"
    /\ UNCHANGED <<now, freq, do_collect, c_pc, c_until, timestamp,
                   next_collect_timestamp, round_start, n_ticks, samples,
                   c_error, driver, stop_at>>
    /\ UNCHANGED <<bmc, rapl, bmc_sample>>
    /\ UNCHANGED <<raplVars, agentVars, runnerVars, bmcVars>>

\* test_collector.py, lines 20 and 32: await asyncio.sleep(sleep_time) is over.
test_sleep ==
    /\ driver = "test"
    /\ d_pc = "busy"
    /\ d_pc' = "end_collect"
    /\ UNCHANGED <<now, freq, do_collect, c_pc, c_until, timestamp,
                   next_collect_timestamp, round_start, n_ticks, samples,
                   c_error, driver, stop_at>>
    /\ UNCHANGED <<bmc, rapl, bmc_sample>>
    /\ UNCHANGED <<raplVars, agentVars, runnerVars, bmcVars>>

\* test_collector.py, lines 21 and 33: `await collector.end_collect()'.
test_end_collect ==
    /\ driver = "test"
    /\ d_pc = "end_collect"
    /\ end_collect
    /\ d_pc' = "join"
    /\ UNCHANGED <<now, freq, c_pc, c_until, timestamp, next_collect_timestamp,
                   round_start, n_ticks, samples, c_error, driver>>
    /\ UNCHANGED <<bmc, rapl, bmc_sample>>
    /\ UNCHANGED <<raplVars, agentVars, runnerVars, bmcVars>>

\* collect_thread.join(): returns once start_collect has returned or raised.
collect_thread_join ==
    /\ d_pc = "join"
    /\ c_pc \in {"returned", "raised"}
    /\ d_pc' = "done"
    /\ UNCHANGED <<now, freq, do_collect, c_pc, c_until, timestamp,
                   next_collect_timestamp, round_start, n_ticks, samples,
                   c_error, driver, stop_at>>
    /\ UNCHANGED <<bmc, rapl, bmc_sample>>
    /\ UNCHANGED <<raplVars, agentVars, runnerVars, bmcVars>>

\* The wall clock advances by one unit; instant 0 is the start of the collector
\* thread.  The loop test takes no time, and an awaited call completes no later
\* than its instant.
Tick ==
    /\ now < MaxTime
    /\ c_pc \notin {"idle", "while"}
    /\ c_pc \in {"sleep", "sample_bmc", "sample_agent"} => now < c_until
    /\ now' = now + 1
    /\ UNCHANGED <<freq, do_collect, c_pc, c_until, timestamp,
                   next_collect_timestamp, round_start, n_ticks, samples,
                   c_error, driver, d_pc, stop_at>>
    /\ UNCHANGED <<bmc, rapl, bmc_sample>>
    /\ UNCHANGED <<raplVars, agentVars, runnerVars, bmcVars>>

CollectorNext ==
    \/ collect_thread_start
    \/ start_collect_while
    \/ start_collect_wake
    \/ sample_bmc
    \/ sample_agent
    \/ run_campaign
    \/ main_end_collect
    \/ test_sleep
    \/ test_end_collect
    \/ collect_thread_join
    \/ Tick

(***************************************************************************)
(* The runner: run_campaign, run_test and the rows they write              *)
(***************************************************************************)
\* asyncio.sleep(seconds), in time units
Secs(seconds) == seconds * UnitsPerSec

\* the runner's adapter, Runner.py line 42: a datetime is stored as text with
\* millisecond resolution; here as the number of milliseconds
isoformat_ms(t) == t * (MsPerSec \div UnitsPerSec)

\* the arguments explored for min_load, max_load, load_delta
LoadArgs == {<<100, 100, 0>>, <<90, 100, 10>>, <<100, 90, 5>>, <<90, 100, 0>>,
             <<90, 100, 20>>}
\* the arguments explored for min_threads, max_threads, threads_delta
ThreadArgs == {<<0, 0, 0>>, <<2, 4, 2>>, <<4, 2, 1>>, <<2, 4, 0>>, <<2, 4, 4>>}
\* the arguments explored for cap_min, cap_max, cap_delta
CapArgs == {<<400, 1000, 200>>, <<400, 1000, 300>>, <<400, 1000, 600>>,
            <<1000, 400, 300>>, <<400, 1000, 0>>, <<400, 1000, 700>>,
            <<400, 1001, 300>>}
\* the arguments explored for up_down: up, down, down | up
UpDownArgs == {UpDown_up, UpDown_down, UpDown_up + UpDown_down}

CampaignArgs(l, t, c, u) ==
    [min_load |-> l[1], max_load |-> l[2], load_delta |-> l[3],
     min_threads |-> t[1], max_threads |-> t[2], threads_delta |-> t[3],
     cap_min |-> c[1], cap_max |-> c[2], cap_delta |-> c[3], up_down |-> u]

\* `up_down & UpDown.up' and `up_down & UpDown.down'
goes_up(up_down) == up_down % (2 * UpDown_up) >= UpDown_up
goes_down(up_down) == up_down % (2 * UpDown_down) >= UpDown_down

\* run_campaign checking only its load and cap arguments
campaign_asserts_load_cap(a) ==
    /\ a.min_load <= a.max_load
    /\ a.cap_min < a.cap_max /\ a.cap_delta > 0
    /\ a.load_delta > 0 \/ a.min_load = a.max_load

\* the assert statements of run_campaign, lines 165-171
campaign_asserts(a) ==
    /\ a.min_load <= a.max_load
    /\ a.min_threads <= a.max_threads
    /\ a.cap_min < a.cap_max /\ a.cap_delta > 0
    /\ a.load_delta > 0 \/ a.min_load = a.max_load
    /\ a.threads_delta > 0 \/ a.min_threads = a.max_threads
    /\ a.load_delta <= a.max_load - a.min_load
    /\ a.threads_delta <= a.max_threads - a.min_threads

\* list(range(start, stop, step)) for step > 0
range(start, stop, step) ==
    IF stop <= start THEN <<>>
    ELSE [i \in 1..((stop - start + step - 1) \div step) |-> start + (i - 1) * step]

\* the concatenation of a sequence of sequences
RECURSIVE Flatten(_)
Flatten(ss) == IF ss = <<>> THEN <<>> ELSE Head(ss) \o Flatten(Tail(ss))

TestArgs(cap_from, cap_to, n_steps, load_pct, n_threads, pause) ==
    [cap_from |-> cap_from, cap_to |-> cap_to, n_steps |-> n_steps,
     load_pct |-> load_pct, n_threads |-> n_threads, pause |-> pause]

\* the body of `for pause in (True, False):', lines 176-182 and 186-192
both_pauses(a, n_steps, load_pct, n_threads) ==
    Flatten([i \in 1..2 |->
        LET pause == <<TRUE, FALSE>>[i] IN
        (IF goes_up(a.up_down)
         THEN <<TestArgs(a.cap_min, a.cap_max, n_steps, load_pct, n_threads, pause)>>
         ELSE <<>>)
        \o
        (IF goes_down(a.up_down)
         THEN <<TestArgs(a.cap_max, a.cap_min, n_steps, load_pct, n_threads, pause)>>
         ELSE <<>>)])

\* the run_test calls the loops of run_campaign make, in order, lines 173-192
campaign_calls(a) ==
    LET n_steps == (a.cap_max - a.cap_min) \div a.cap_delta
        loads == IF a.load_delta > 0
                 THEN range(a.min_load, a.max_load + 1, a.load_delta)
                 ELSE <<>>
        threads == IF a.threads_delta > 0
                   THEN range(a.min_threads, a.max_threads + 1, a.threads_delta)
                   ELSE <<>>
    IN  Flatten([i \in 1..Len(loads) |-> both_pauses(a, n_steps, loads[i], 0)])
        \o
        Flatten([i \in 1..Len(threads) |-> both_pauses(a, n_steps, 100, threads[i])])

\* a load that always runs for one step
firestarter_runtime_per_step(t) == per_step_runtime_seconds

\* cap_delta with the caps swapped
test_cap_delta_swapped(t) == (t.cap_to - t.cap_from) \div t.n_steps

\* a load that runs for one step more than the trajectory has
firestarter_runtime_one_step_more(t) ==
    IF t.pause THEN per_step_runtime_seconds
    ELSE warmup_seconds + (t.n_steps + 1) * per_step_runtime_seconds

\* a sleep of the pause alone
pause_step_seconds_pause_only(t) == inter_step_pause_seconds

\* firestarter_runtime and cap_delta of run_test, lines 117-122
firestarter_runtime(t) ==
    IF t.pause THEN per_step_runtime_seconds
    ELSE warmup_seconds + t.n_steps * per_step_runtime_seconds
test_cap_delta(t) == (t.cap_from - t.cap_to) \div t.n_steps
\* line 134: the sleep after the launch of a step, firestarter_runtime +
\* inter_step_pause_seconds
pause_step_seconds(t) == firestarter_runtime(t) + inter_step_pause_seconds

RunnerInit(cs) ==
    /\ campaigns = cs
    /\ r_ci = 0
    /\ r_pc = "idle"
    /\ r_until = 0
    /\ r_queue = <<>>
    /\ r_test = None
    /\ r_left = 0
    /\ cap_level = None
    /\ start_time = 0
    /\ r_error = "none"
    /\ capping_commands = <<>>
    /\ tests = <<>>
    /\ applied = <<>>
    /\ launches = <<>>
    /\ calls = <<>>
    /\ returned = 0

\* Runner.launch_firestarter, lines 94-98: the JSON body of the request
firestarter_args(load_pct, n_threads, runtime_secs) ==
    [load_pct |-> load_pct, n_threads |-> n_threads, runtime_secs |-> runtime_secs]

\* dict.get(key, default) on a JSON body
get(args, key, default) == IF key \in DOMAIN args THEN args[key] ELSE default

\* agent.py launch_firestarter, lines 214-217: the options of the command line
\* the launcher thread runs, read from the body of the request
command_line(args) ==
    [timeout |-> get(args, "runtime_secs", 30),
     load |-> get(args, "pct_load", 100),
     threads |-> get(args, "n_threads", 0)]

\* the exception leaves run_test, run_campaign and whoever awaited them
runner_raises(error) ==
    /\ r_pc' = "raised"
    /\ r_error' = error

\* log_cap_level with the time the trajectory began
log_cap_level_stale(cap) ==
    capping_commands' =
        Append(capping_commands, [timestamp |-> isoformat_ms(start_time), cap_level |-> cap])

\* log_cap_level writing its row twice
log_cap_level_twice(cap) ==
    capping_commands' =
        capping_commands \o [i \in 1..2 |->
                                [timestamp |-> isoformat_ms(now), cap_level |-> cap]]

\* log_cap_level(cap), lines 252-257: one row (datetime.now(UTC), cap).
log_cap_level(cap) ==
    capping_commands' =
        Append(capping_commands, [timestamp |-> isoformat_ms(now), cap_level |-> cap])

\* self.log_cap_level(cap); await self.bmc.set_cap_level(cap): the row is
\* written (or the insert raises), then the BMC command is issued.
log_and_set_cap_level(cap, pc) ==
    \/ /\ log_cap_level(cap)
       /\ r_pc' = pc
       /\ r_until' = now + RunnerLatency
       /\ r_error' = r_error
    \/ /\ capping_commands' = capping_commands
       /\ runner_raises("store")
       /\ r_until' = r_until

\* await self.bmc.set_cap_level(cap) returns: the BMC holds the cap.
set_cap_level_returns(cap) ==
    applied' = Append(applied, [at |-> now, cap_level |-> cap])

\* await self.launch_firestarter(load_pct, n_threads, firestarter_runtime):
\* the POST /firestarter request is sent.
launch_firestarter_post(pc) ==
    /\ launches' = Append(launches, [at |-> now,
                                     load_pct |-> r_test.load_pct,
                                     n_threads |-> r_test.n_threads,
                                     runtime_secs |-> firestarter_runtime(r_test)])
    /\ r_pc' = pc
    /\ r_until' = now + RunnerLatency

\* ---- the agent as the runner's launch requests meet it ----
\* the instant the agent's handler serves the j-th launch request: the runner
\* has its answer RunnerLatency after sending it
handled_at(j) == launches[j].at + RunnerLatency
\* agent.py launch_firestarter, lines 213-220: the load generator started for
\* the j-th request exits when its --timeout, the runtime_secs of the request,
\* has elapsed
load_end(j) == handled_at(j) + Secs(launches[j].runtime_secs)
\* agent.py firestarter, lines 189-203, for the first n launch requests: 409
\* if the thread of an accepted request is_alive, that is if its load
\* generator has not exited, else 202
RECURSIVE firestarter_statuses(_)
firestarter_statuses(n) ==
    IF n = 0 THEN <<>>
    ELSE LET before == firestarter_statuses(n - 1)
         IN  Append(before,
                    IF \E i \in 1..(n - 1) :
                          /\ before[i] = HTTP_202_ACCEPTED
                          /\ handled_at(n) < load_end(i)
                    THEN HTTP_409_CONFLICT
                    ELSE HTTP_202_ACCEPTED)
\* is a load generator running at instant t (in milliseconds), given the
\* statuses the launch requests were answered with
load_running(statuses, t) ==
    \E j \in 1..Len(launches) :
       /\ statuses[j] = HTTP_202_ACCEPTED
       /\ isoformat_ms(handled_at(j)) <= t
       /\ t < isoformat_ms(load_end(j))

\* a run_test that writes no tests row
log_test_run_skipped(start, end) == tests' = tests

\* log_test_run(...), lines 239-250: one row of table tests.
log_test_run(start, end) ==
    tests' = Append(tests, [start_time |-> isoformat_ms(start),
                            end_time |-> isoformat_ms(end),
                            cap_from |-> r_test.cap_from,
                            cap_to |-> r_test.cap_to,
                            n_steps |-> r_test.n_steps,
                            load_pct |-> r_test.load_pct,
                            n_threads |-> r_test.n_threads,
                            pause_load_between_cap_settings |-> r_test.pause])

\* lines 154-156: end_time = datetime.now(UTC); log_test_run(...); run_test
\* returns to the loops of run_campaign.
run_test_return ==
    \/ /\ log_test_run(start_time, now)
       /\ returned' = returned + 1
       /\ r_pc' = "next"
       /\ r_error' = r_error
    \/ /\ tests' = tests
       /\ returned' = returned
       /\ runner_raises("store")

\* run_campaign is called, lines 165-173: the asserts, then n_steps and the
\* loops are set up.
run_campaign_enter ==
    /\ r_pc = "idle"
    /\ r_ci < Len(campaigns)
    /\ driver = "main" => d_pc = "busy"
    /\ r_ci' = r_ci + 1
    /\ IF campaign_asserts(campaigns[r_ci + 1])
       THEN /\ r_queue' = campaign_calls(campaigns[r_ci + 1])
            /\ r_pc' = "next"
            /\ r_error' = r_error
       ELSE /\ r_queue' = r_queue
            /\ r_pc' = "rejected"
            /\ r_error' = "AssertionError"
    /\ UNCHANGED <<campaigns, r_until, r_test, r_left, cap_level, start_time,
                   capping_commands, tests, applied, launches, calls, returned>>
    /\ UNCHANGED <<raplVars, agentVars, collectorVars, bmcVars>>

\* The loops of run_campaign: either they are over and run_campaign returns,
\* or the next run_test is called and runs up to its first await (lines
\* 111-128 with a pause between cap settings, lines 111-123 and 140-142
\* without).
run_campaign_next ==
    /\ r_pc = "next"
    /\ IF r_queue = <<>>
       THEN /\ r_pc' = "idle"
            /\ UNCHANGED <<r_until, r_queue, r_test, r_left, cap_level, start_time,
                           r_error, capping_commands, calls>>
       ELSE LET t == Head(r_queue) IN
            /\ r_queue' = Tail(r_queue)
            /\ r_test' = t
            /\ calls' = Append(calls, [args |-> t,
                                       rows |-> Len(capping_commands),
                                       sets |-> Len(applied),
                                       posts |-> Len(launches)])
            /\ IF ~(t.n_steps > 0)
               THEN /\ runner_raises("AssertionError")
                    /\ UNCHANGED <<r_until, r_left, cap_level, start_time,
                                   capping_commands>>
               ELSE /\ start_time' = now
                    /\ r_left' = t.n_steps
                    /\ IF t.pause
                       THEN /\ cap_level' = None
                            /\ log_and_set_cap_level(t.cap_from, "pause_set_cap_from")
                       ELSE /\ cap_level' = uncapped_power
                            /\ log_and_set_cap_level(uncapped_power, "set_uncapped")
    /\ UNCHANGED <<campaigns, r_ci, tests, applied, launches, returned>>
    /\ UNCHANGED <<raplVars, agentVars, collectorVars, bmcVars>>

\* ---- with a pause between cap settings, lines 125-137 ----

\* line 128 returns; line 129: await asyncio.sleep(inter_step_pause_seconds)
pause_set_cap_from ==
    /\ r_pc = "pause_set_cap_from"
    /\ now >= r_until
    /\ \/ /\ set_cap_level_returns(r_test.cap_from)
          /\ r_pc' = "pause_initial_sleep"
          /\ r_until' = now + Secs(inter_step_pause_seconds)
          /\ r_error' = r_error
       \/ /\ applied' = applied
          /\ runner_raises("bmc")
          /\ r_until' = r_until
    /\ UNCHANGED <<campaigns, r_ci, r_queue, r_test, r_left, cap_level, start_time,
                   capping_commands, tests, launches, calls, returned>>
    /\ UNCHANGED <<raplVars, agentVars, collectorVars, bmcVars>>

\* line 129 is over; lines 131-133: cap_level = cap_from and the first
\* iteration sends its launch request.
pause_initial_sleep ==
    /\ r_pc = "pause_initial_sleep"
    /\ now >= r_until
    /\ cap_level' = r_test.cap_from
    /\ launch_firestarter_post("pause_launch")
    /\ UNCHANGED <<campaigns, r_ci, r_queue, r_test, r_left, start_time, r_error,
                   capping_commands, tests, applied, calls, returned>>
    /\ UNCHANGED <<raplVars, agentVars, collectorVars, bmcVars>>

\* line 133 returns (whatever the status answered) or raises; line 134: await
\* asyncio.sleep(firestarter_runtime + inter_step_pause_seconds)
pause_launch ==
    /\ r_pc = "pause_launch"
    /\ now >= r_until
    /\ \/ /\ r_pc' = "pause_step_sleep"
          /\ r_until' = now + Secs(pause_step_seconds(r_test))
          /\ r_error' = r_error
       \/ /\ runner_raises("agent")
          /\ r_until' = r_until
    /\ UNCHANGED <<campaigns, r_ci, r_queue, r_test, r_left, cap_level, start_time,
                   capping_commands, tests, applied, launches, calls, returned>>
    /\ UNCHANGED <<raplVars, agentVars, collectorVars, bmcVars>>

\* line 134 is over; lines 135-137: cap_level -= cap_delta, the row is logged
\* and the BMC command issued.
pause_step_sleep ==
    /\ r_pc = "pause_step_sleep"
    /\ now >= r_until
    /\ cap_level' = cap_level - test_cap_delta(r_test)
    /\ log_and_set_cap_level(cap_level', "pause_set_cap_level")
    /\ UNCHANGED <<campaigns, r_ci, r_queue, r_test, r_left, start_time,
                   tests, applied, launches, calls, returned>>
    /\ UNCHANGED <<raplVars, agentVars, collectorVars, bmcVars>>

\* line 137 returns: the iteration is over; the next one sends its launch
\* request (line 133), or the loop is over and run_test returns.
pause_set_cap_level ==
    /\ r_pc = "pause_set_cap_level"
    /\ now >= r_until
    /\ \/ /\ set_cap_level_returns(cap_level)
          /\ r_left' = r_left - 1
          /\ IF r_left' > 0
             THEN /\ launch_firestarter_post("pause_launch")
                  /\ UNCHANGED <<tests, returned, r_error>>
             ELSE /\ run_test_return
                  /\ UNCHANGED <<launches, r_until>>
       \/ /\ applied' = applied
          /\ runner_raises("bmc")
          /\ UNCHANGED <<r_left, r_until, tests, returned, launches>>
    /\ UNCHANGED <<campaigns, r_ci, r_queue, r_test, cap_level, start_time,
                   capping_commands, calls>>
    /\ UNCHANGED <<raplVars, agentVars, collectorVars, bmcVars>>

\* ---- with the load running throughout, lines 139-152 ----

\* line 142 returns; line 143: the launch request is sent.
set_uncapped ==
    /\ r_pc = "set_uncapped"
    /\ now >= r_until
    /\ \/ /\ set_cap_level_returns(cap_level)
          /\ launch_firestarter_post("launch")
          /\ r_error' = r_error
       \/ /\ applied' = applied
          /\ runner_raises("bmc")
          /\ UNCHANGED <<launches, r_until>>
    /\ UNCHANGED <<campaigns, r_ci, r_queue, r_test, r_left, cap_level, start_time,
                   capping_commands, tests, calls, returned>>
    /\ UNCHANGED <<raplVars, agentVars, collectorVars, bmcVars>>

\* line 143 returns or raises; line 144: await asyncio.sleep(warmup_seconds)
launch ==
    /\ r_pc = "launch"
    /\ now >= r_until
    /\ \/ /\ r_pc' = "warmup"
          /\ r_until' = now + Secs(warmup_seconds)
          /\ r_error' = r_error
       \/ /\ runner_raises("agent")
          /\ r_until' = r_until
    /\ UNCHANGED <<campaigns, r_ci, r_queue, r_test, r_left, cap_level, start_time,
                   capping_commands, tests, applied, launches, calls, returned>>
    /\ UNCHANGED <<raplVars, agentVars, collectorVars, bmcVars>>

\* line 144 is over; lines 145-148: cap_level = cap_from, and the first
\* iteration logs its row and issues the BMC command.
warmup ==
    /\ r_pc = "warmup"
    /\ now >= r_until
    /\ cap_level' = r_test.cap_from
    /\ log_and_set_cap_level(cap_level', "set_cap_level")
    /\ UNCHANGED <<campaigns, r_ci, r_queue, r_test, r_left, start_time,
                   tests, applied, launches, calls, returned>>
    /\ UNCHANGED <<raplVars, agentVars, collectorVars, bmcVars>>

\* line 148 returns; line 149: await asyncio.sleep(per_step_runtime_seconds)
set_cap_level ==
    /\ r_pc = "set_cap_level"
    /\ now >= r_until
    /\ \/ /\ set_cap_level_returns(cap_level)
          /\ r_pc' = "step_sleep"
          /\ r_until' = now + Secs(per_step_runtime_seconds)
          /\ r_error' = r_error
       \/ /\ applied' = applied
          /\ runner_raises("bmc")
          /\ r_until' = r_until
    /\ UNCHANGED <<campaigns, r_ci, r_queue, r_test, r_left, cap_level, start_time,
                   capping_commands, tests, launches, calls, returned>>
    /\ UNCHANGED <<raplVars, agentVars, collectorVars, bmcVars>>

\* line 149 is over; line 150: cap_level -= cap_delta; then the next iteration
\* (lines 147-148), or line 152: await asyncio.sleep(inter_step_pause_seconds)
step_sleep ==
    /\ r_pc = "step_sleep"
    /\ now >= r_until
    /\ cap_level' = cap_level - test_cap_delta(r_test)
    /\ r_left' = r_left - 1
    /\ IF r_left' > 0
       THEN log_and_set_cap_level(cap_level', "set_cap_level")
       ELSE /\ r_pc' = "final_pause"
            /\ r_until' = now + Secs(inter_step_pause_seconds)
            /\ UNCHANGED <<capping_commands, r_error>>
    /\ UNCHANGED <<campaigns, r_ci, r_queue, r_test, start_time,
                   tests, applied, launches, calls, returned>>
    /\ UNCHANGED <<raplVars, agentVars, collectorVars, bmcVars>>

\* line 152 is over; run_test returns.
final_pause ==
    /\ r_pc = "final_pause"
    /\ now >= r_until
    /\ run_test_return
    /\ UNCHANGED <<campaigns, r_ci, r_until, r_queue, r_test, r_left, cap_level,
                   start_time, capping_commands, applied, launches, calls>>
    /\ UNCHANGED <<raplVars, agentVars, collectorVars, bmcVars>>

\* the awaited calls of run_test
RunnerAwaits == {"pause_set_cap_from", "pause_initial_sleep", "pause_launch",
                 "pause_step_sleep", "pause_set_cap_level", "set_uncapped",
                 "launch", "warmup", "set_cap_level", "step_sleep", "final_pause"}

\* the awaited calls of start_collect
CollectorAwaits == {"sleep", "sample_bmc", "sample_agent"}

\* the instants at which an awaited call completes
Deadlines ==
    (IF c_pc \in CollectorAwaits THEN {c_until} ELSE {})
    \cup (IF r_pc \in RunnerAwaits THEN {r_until} ELSE {})

\* The wall clock advances to the next instant at which an awaited call
\* completes.  Code that does not await takes no time.  While the collector
\* samples, the clock stops at MaxSampledTime.
Elapse ==
    /\ c_pc # "while"
    /\ c_pc = "idle" => driver = "runner"
    /\ r_pc # "next"
    /\ ~(r_pc = "idle" /\ r_ci < Len(campaigns))
    /\ Deadlines # {}
    /\ \E t \in Deadlines :
          /\ \A u \in Deadlines : t <= u
          /\ t > now
          /\ c_pc \in CollectorAwaits => t <= MaxSampledTime
          /\ now' = t
    /\ UNCHANGED <<freq, do_collect, c_pc, c_until, timestamp,
                   next_collect_timestamp, round_start, n_ticks, samples,
                   c_error, bmc, rapl, bmc_sample, driver, d_pc, stop_at>>
    /\ UNCHANGED <<raplVars, agentVars, runnerVars, bmcVars>>

\* Runner.py main, lines 281-287: both run_campaign calls have returned.
main_campaigns_return ==
    /\ driver = "main"
    /\ d_pc = "busy"
    /\ r_pc = "idle"
    /\ r_ci = Len(campaigns)
    /\ d_pc' = "end_collect"
    /\ UNCHANGED <<now, freq, do_collect, c_pc, c_until, timestamp,
                   next_collect_timestamp, round_start, n_ticks, samples,
                   c_error, bmc, rapl, bmc_sample, driver, stop_at>>
    /\ UNCHANGED <<raplVars, agentVars, runnerVars, bmcVars>>

\* Runner.bmc_connect and Collector.bmc_connect as main awaits them: connect
\* on a Redfish endpoint, nothing otherwise.  An exception leaves main.
main_bmc_connect(e, pc) ==
    /\ IF bmc_type = "redfish"
       THEN /\ connect(e)
            /\ now' = now + RunnerLatency
            /\ d_pc' = IF b_calls'[Len(b_calls')].outcome = "returned"
                       THEN pc ELSE "raised"
       ELSE /\ d_pc' = pc
            /\ UNCHANGED <<now, token, session_id, _chassis, bmc_sessions,
                           bmc_requests, capping_active, b_calls>>
    /\ UNCHANGED <<bmc_type, system_info, ipmi_proc>>
    /\ UNCHANGED <<freq, do_collect, c_pc, c_until, timestamp,
                   next_collect_timestamp, round_start, n_ticks, samples,
                   c_error, bmc, rapl, bmc_sample, driver, stop_at>>
    /\ UNCHANGED <<raplVars, agentVars, runnerVars>>

\* Runner.py main, line 273: await runner.bmc_connect()
main_runner_bmc_connect ==
    /\ driver = "main"
    /\ d_pc = "runner_bmc_connect"
    /\ main_bmc_connect("runner", "collector_bmc_connect")

\* Runner.py main, line 274: await collector.bmc_connect()
main_collector_bmc_connect ==
    /\ driver = "main"
    /\ d_pc = "collector_bmc_connect"
    /\ main_bmc_connect("collector", "system_info")

\* Runner.py main, line 275: await runner.collect_system_information(); an
\* agent that cannot be reached raises out of main.
main_collect_system_information ==
    /\ driver = "main"
    /\ d_pc = "system_info"
    /\ now' = now + RunnerLatency
    /\ \/ /\ \E status \in SystemInfoStatuses :
                collect_system_information("runner", status)
          /\ d_pc' = "spawn"
       \/ /\ d_pc' = "raised"
          /\ UNCHANGED system_info
    /\ UNCHANGED <<freq, do_collect, c_pc, c_until, timestamp,
                   next_collect_timestamp, round_start, n_ticks, samples,
                   c_error, bmc, rapl, bmc_sample, driver, stop_at>>
    /\ UNCHANGED <<raplVars, agentVars, runnerVars, endpointVars, ipmi_proc>>

\* Runner.py main has no try: an exception out of lines 273-287 leaves main
\* and asyncio.run(main()) at line 295, and lines 290-291 are not reached.
main_raised ==
    /\ driver = "main"
    /\ \/ d_pc = "raised"
       \/ d_pc = "busy" /\ r_pc \in {"raised", "rejected"}

RunnerNext ==
    \/ run_campaign_enter
    \/ run_campaign_next
    \/ pause_set_cap_from
    \/ pause_initial_sleep
    \/ pause_launch
    \/ pause_step_sleep
    \/ pause_set_cap_level
    \/ set_uncapped
    \/ launch
    \/ warmup
    \/ set_cap_level
    \/ step_sleep
    \/ final_pause
    \/ Elapse

(***************************************************************************)
(* The agent: GET /rapl_power                                              *)
(***************************************************************************)
\* the packages of package_info, by position in Packages
PackageIds == 1..Len(Packages)

\* lines 171-174: the energy consumed between the two readings, a reading not
\* above the first one being taken for a wrap of the counter
energy_delta_no_wrap(start_energy, end_energy, max) == end_energy - start_energy

energy_delta(start_energy, end_energy, max) ==
    IF end_energy > start_energy
    THEN end_energy - start_energy
    ELSE max - start_energy + end_energy

\* line 178: energy_delta / time_delta_ns * 1000, the quotient kept exact
package_power_watts(delta, time_delta_ns) ==
    [num |-> delta * 1000, den |-> time_delta_ns]

\* the agent with no /rapl_power request
RaplIdle ==
    /\ sleep_blocks = TRUE
    /\ max_energy = [p \in PackageIds |-> MaxEnergy]
    /\ monotonic = 0
    /\ q_pc = [r \in RaplRequests |-> "none"]
    /\ start_values = [r \in RaplRequests |-> <<>>]
    /\ package_powers = <<>>

\* the agent of agent.py or of agent2.py with the /rapl_power requests of
\* `sent' received, its packages having a max_energy_range_uj in `ranges'
RaplInit(sent, ranges) ==
    /\ sleep_blocks \in BOOLEAN
    /\ max_energy \in [PackageIds -> ranges]
    /\ monotonic = 0
    /\ q_pc = [r \in RaplRequests |-> IF r \in sent THEN "new" ELSE "none"]
    /\ start_values = [r \in RaplRequests |-> <<>>]
    /\ package_powers = <<>>

\* what read_energy_path can return for the packages: a counter value up to
\* the range of each
EnergyReadings ==
    {reading \in [PackageIds -> 0..MaxEnergy] :
        \A p \in PackageIds : reading[p] <= max_energy[p]}

\* rapl_power up to its sleep, lines 149-159: the start readings, each with
\* its monotonic timestamp.
rapl_power_enter(r) ==
    /\ q_pc[r] = "new"
    /\ event_loop_free
    /\ \E reading \in EnergyReadings :
          start_values' =
              [start_values EXCEPT ![r] =
                  [p \in PackageIds |-> [energy_uj |-> reading[p],
                                         timestamp |-> monotonic]]]
    /\ q_pc' = [q_pc EXCEPT ![r] = "window"]
    /\ UNCHANGED <<sleep_blocks, max_energy, monotonic, package_powers>>
    /\ UNCHANGED <<agentVars, collectorVars, runnerVars, bmcVars>>

\* rapl_power after its sleep, lines 161-181: the end readings, the power of
\* every package, the response; the locals of the handler are gone with it.
\* The sleep lasts at least the sampling window.
rapl_power_resume(r) ==
    /\ q_pc[r] = "window"
    /\ \A p \in PackageIds : monotonic >= start_values[r][p].timestamp + 1
    /\ \A o \in RaplRequests \ {r} : ~(sleep_blocks /\ q_pc[o] = "window")
    /\ \E reading \in EnergyReadings :
          package_powers' =
              [p \in PackageIds |->
                  LET start_energy == start_values[r][p].energy_uj
                      end_energy == reading[p]
                      time_delta_ns == monotonic - start_values[r][p].timestamp
                      delta == energy_delta(start_energy, end_energy, max_energy[p])
                  IN  [start_energy |-> start_energy,
                       end_energy |-> end_energy,
                       max_energy |-> max_energy[p],
                       time_delta_ns |-> time_delta_ns,
                       energy_delta |-> delta,
                       package_power_watts |->
                           package_power_watts(delta, time_delta_ns)]]
    /\ q_pc' = [q_pc EXCEPT ![r] = "done"]
    /\ start_values' = [start_values EXCEPT ![r] = <<>>]
    /\ UNCHANGED <<sleep_blocks, max_energy, monotonic>>
    /\ UNCHANGED <<agentVars, collectorVars, runnerVars, bmcVars>>

\* the monotonic clock advances by one sampling window
monotonic_ns ==
    /\ monotonic < MaxMonotonic
    /\ monotonic' = monotonic + 1
    /\ UNCHANGED <<sleep_blocks, max_energy, q_pc, start_values, package_powers>>
    /\ UNCHANGED <<agentVars, collectorVars, runnerVars, bmcVars>>

\* the agent serving GET /rapl_power
RaplNext ==
    \/ \E r \in RaplRequests : rapl_power_enter(r)
    \/ \E r \in RaplRequests : rapl_power_resume(r)
    \/ monotonic_ns

\* the agent serving GET /rapl_power requests and one POST /firestarter
ServeNext ==
    \/ \E r \in RaplRequests : rapl_power_enter(r)
    \/ \E r \in RaplRequests : rapl_power_resume(r)
    \/ firestarter_enter(1)
    \/ firestarter_launch(1)
    \/ \E t \in Threads : launch_firestarter_exit(t)
    \/ monotonic_ns


(***************************************************************************)
(* Specifications                                                          *)
(***************************************************************************)
Init ==
    AgentInit /\ RaplIdle /\ CollectorInit /\ RunnerInit(<<>>)
    /\ BmcInit({"ipmi"}, BOOLEAN)

\* the agent serving POST /firestarter requests
AgentSpec == Init /\ [][AgentNext]_vars

\* the collector and the thread that owns it
CollectorSpec == Init /\ [][CollectorNext]_vars

\* the collector before its thread is started
CollectorIdle ==
    /\ now = 0
    /\ do_collect = TRUE
    /\ c_pc = "idle"
    /\ c_until = 0
    /\ timestamp = 0
    /\ next_collect_timestamp = 0
    /\ round_start = 0
    /\ bmc_sample = no_bmc_sample
    /\ n_ticks = 0
    /\ samples = <<>>
    /\ c_error = "none"
    /\ bmc = <<>>
    /\ rapl = <<>>
    /\ stop_at = "none"

\* one call of run_campaign on a Runner, no collector thread
RunnerInit1 ==
    /\ AgentInit
    /\ RaplIdle
    /\ CollectorIdle
    /\ BmcInit({"ipmi"}, {FALSE})
    /\ freq = 1
    /\ driver = "runner"
    /\ d_pc = "spawn"
    /\ \E l \in LoadArgs, t \in ThreadArgs, c \in CapArgs, u \in UpDownArgs :
          RunnerInit(<<CampaignArgs(l, t, c, u)>>)

RunnerSpec == RunnerInit1 /\ [][RunnerNext]_vars

\* the two run_campaign calls of main, Runner.py lines 281-287
main_campaigns ==
    <<CampaignArgs(<<90, 100, 5>>, <<192, 224, 8>>, <<400, 1000, 300>>,
                   UpDown_down + UpDown_up),
      CampaignArgs(<<90, 100, 5>>, <<192, 224, 8>>, <<400, 1000, 600>>,
                   UpDown_down + UpDown_up)>>

\* Runner.py main: collector.start_collect() with the default freq
MainInit ==
    /\ AgentInit
    /\ RaplIdle
    /\ CollectorIdle
    /\ BmcInit(BmcTypes, {FALSE})
    /\ freq = 1
    /\ driver = "main"
    /\ d_pc = "runner_bmc_connect"
    /\ RunnerInit(main_campaigns)

MainNext ==
    \/ main_runner_bmc_connect
    \/ main_collector_bmc_connect
    \/ main_collect_system_information
    \/ collect_thread_start
    \/ start_collect_while
    \/ start_collect_wake
    \/ sample_bmc
    \/ sample_agent
    \/ run_campaign_enter
    \/ run_campaign_next
    \/ pause_set_cap_from
    \/ pause_initial_sleep
    \/ pause_launch
    \/ pause_step_sleep
    \/ pause_set_cap_level
    \/ set_uncapped
    \/ launch
    \/ warmup
    \/ set_cap_level
    \/ step_sleep
    \/ final_pause
    \/ main_campaigns_return
    \/ main_end_collect
    \/ collect_thread_join
    \/ Elapse

\* Runner.py main: the collector thread and the two campaigns
MainSpec == MainInit /\ [][MainNext]_vars

\* a holder of the two endpoint objects calling their session and capping
\* methods in any order
EndpointInit ==
    /\ AgentInit
    /\ RaplIdle
    /\ CollectorIdle
    /\ BmcInit(BmcTypes, {FALSE})
    /\ freq = 1
    /\ driver = "caller"
    /\ d_pc = "spawn"
    /\ RunnerInit(<<>>)

BmcSpec == EndpointInit /\ [][BmcNext]_vars

\* a holder of the two endpoint objects calling their power and capping
\* methods in any order
CapSpec == EndpointInit /\ [][CapNext]_vars

\* one ipmitool command run by IpmiBMC.run_ipmi_command
IpmiSpec == EndpointInit /\ [][IpmiNext]_vars

\* the agent without its /rapl_power requests
AgentIdle ==
    /\ AgentInit
    /\ CollectorIdle
    /\ BmcInit({"ipmi"}, {FALSE})
    /\ freq = 1
    /\ driver = "agent"
    /\ d_pc = "spawn"
    /\ RunnerInit(<<>>)

\* one GET /rapl_power request, for every range of the energy counters
RaplInit1 == AgentIdle /\ RaplInit({1}, 1..MaxEnergy)

RaplSpec == RaplInit1 /\ [][RaplNext]_vars

\* two GET /rapl_power requests and one POST /firestarter
ServeInit == AgentIdle /\ RaplInit(RaplRequests, {1})

ServeSpec == ServeInit /\ [][ServeNext]_vars

(***************************************************************************)
(* Claims about the agent (under AgentSpec)                                *)
(***************************************************************************)
Done(h) == h_pc[h] = "done"

\* C1: at most one load-generator subprocess (launcher thread) started by the
\* agent is alive at any time.
AtMostOneLoadGenerator == Cardinality(alive) <= 1

\* C2: two POST /firestarter requests whose handlers overlap, both begun while
\* no load generator was running, are answered 202 and 409, one each, and
\* exactly one subprocess is started for the two.
SingleFlightOfSimultaneousPosts ==
    \A h1, h2 \in Requests :
        ( /\ h1 # h2
          /\ Done(h1) /\ Done(h2)
          /\ h1 \in overlapped[h2]
          /\ ~busy_at_arrival[h1] /\ ~busy_at_arrival[h2] )
        => /\ {resp[h1], resp[h2]} = {HTTP_202_ACCEPTED, HTTP_409_CONFLICT}
           /\ Cardinality({spawned[h1], spawned[h2]} \ {None}) = 1

\* C3: a POST /firestarter whose handler begins while a load job started
\* earlier is still running is answered 409 and starts no subprocess.
ConflictWhileLoadRunning ==
    \A h \in Requests :
        (Done(h) /\ busy_at_arrival[h])
        => resp[h] = HTTP_409_CONFLICT /\ spawned[h] = None

\* C4: a POST /firestarter whose handler begins when every load job started
\* before has completed is answered 202 and has started a new subprocess; a
\* request is answered 409 only if a job was running when it arrived.
FinishedJobNeverAnswers409 ==
    \A h \in Requests :
        (Done(h) /\ ~busy_at_arrival[h])
        => /\ resp[h] = HTTP_202_ACCEPTED
           /\ spawned[h] # None
           /\ spawned[h] # handle_at_arrival[h]

\* C4 witness: a request that arrived after the job of the stored handle had
\* completed has been answered 202.
FinishedJobThenAccepted ==
    \E h \in Requests :
        /\ Done(h)
        /\ handle_at_arrival[h] # None
        /\ ~busy_at_arrival[h]
        /\ resp[h] = HTTP_202_ACCEPTED

\* C5: the step that answers 202 is the step that starts the launcher thread,
\* and the load generator it started is still running when the answer is
\* given: the handler has not waited for it.
AcceptedWithoutWaiting ==
    [][\A h \in Requests :
          (resp[h] = None /\ resp'[h] = HTTP_202_ACCEPTED)
          => (spawned'[h] \in alive' /\ h_pc[h] = "json" /\ Done(h)')]_vars

\* C5 witness: a request has been answered 202 while its load generator runs.
AcceptedWhileLoadRuns ==
    \E h \in Requests : resp[h] = HTTP_202_ACCEPTED /\ spawned[h] \in alive

(***************************************************************************)
(* Claims about the collector (under CollectorSpec)                        *)
(***************************************************************************)
Abs(x) == IF x < 0 THEN -x ELSE x

\* C6: once the runner has signalled stop after its last trajectory and waits
\* for the collector, the collector's flag is flipped (so its loop exits).
StopSignalledBeforeJoin ==
    (driver = "main" /\ d_pc \in {"join", "done"}) => ~do_collect

\* C7: a failed BMC read or agent read never ends the sampling loop while stop
\* has not been requested.
SampleErrorSkipsTick ==
    do_collect => ~(c_pc = "raised" /\ c_error \in ReadErrors)

\* C8: once the flag is flipped no loop iteration is entered any more, and the
\* loop test, when it is reached, returns from start_collect.
StopAtTickBoundary ==
    [][~do_collect =>
          /\ n_ticks' = n_ticks
          /\ Len(samples') <= Len(samples) + 1
          /\ (c_pc = "while" /\ c_pc' # "while") => c_pc' = "returned"]_vars

\* C8 witness: the flag was flipped during a tick, that tick has been
\* completed and stored, and start_collect has returned and been joined.
StoppedAfterTickInProgress ==
    /\ ~do_collect
    /\ stop_at \in {"sleep", "sample_bmc", "sample_agent"}
    /\ c_pc = "returned"
    /\ d_pc = "done"
    /\ Len(samples) = n_ticks
    /\ n_ticks >= 2

\* C9: while every sampling round takes less than one period, the timestamps
\* of successive stored samples differ by one period, within 10% of it.
DriftFreeCadence ==
    (\A k \in 1..Len(samples) : samples[k].round < sample_interval)
    => \A i \in 1..(Len(samples) - 1) :
          10 * Abs(samples[i + 1].ts - samples[i].ts - sample_interval)
              <= sample_interval

\* C10: over any window of length T delimited by two stored samples, the
\* number of samples is floor(T * freq) plus or minus 1.
SampleCountMatchesRate ==
    \A i, j \in 1..Len(samples) :
        i < j =>
            LET T == samples[j].ts - samples[i].ts
                n == j - i + 1
                expected == T \div sample_interval
            IN  expected - 1 <= n /\ n <= expected + 1

\* C11: a tick whose sampling round took longer than the period is followed
\* at once by the next tick (which does not sleep), the timestamps of the two
\* ticks differ by the duration of that round, no further tick runs back to
\* back to catch up (after a short round the loop sleeps again), and every
\* tick entered is stored.
LongRoundNoBacklog ==
    /\ \A i \in 1..(Len(samples) - 1) :
          samples[i].round > sample_interval =>
             /\ samples[i + 1].slept = 0
             /\ samples[i + 1].ts - samples[i].ts = samples[i].round
             /\ (i + 2 <= Len(samples) /\ samples[i + 1].round < sample_interval)
                   => samples[i + 2].slept > 0
    /\ c_error = "none" => Len(samples) >= n_ticks - 1

\* C13: the committed rows of a tick are the bmc row and one rapl row per
\* package, all under the timestamp passed to save_sample; rows of a tick are
\* never visible in part, and a tick whose save raised has no row at all.
TickStoredAtomically ==
    /\ Len(bmc) = Len(samples)
    /\ Len(rapl) = Len(Packages) * Len(bmc)
    /\ \A k \in 1..Len(bmc) :
          /\ bmc[k].timestamp = samples[k].ts
          /\ \A p \in 1..Len(Packages) :
                rapl[Len(Packages) * (k - 1) + p] =
                    [timestamp |-> bmc[k].timestamp, package |-> Packages[p]]
    /\ (c_pc = "raised" /\ c_error \in {"store", "agent_status"}) =>
          /\ \A k \in 1..Len(bmc) : bmc[k].timestamp # timestamp
          /\ \A k \in 1..Len(rapl) : rapl[k].timestamp # timestamp

\* C13 witness: one tick has been committed and the save of a later tick has
\* raised after its bmc row was inserted.
TickRolledBackAfterStoredTick ==
    /\ c_pc = "raised"
    /\ c_error = "agent_status"
    /\ Len(bmc) >= 1
    /\ Len(rapl) = Len(Packages) * Len(bmc)

(***************************************************************************)
(* Claims about the runner (under RunnerSpec)                              *)
(***************************************************************************)
\* what the k-th run_test call wrote, applied and posted: everything between
\* its entry and the entry of the next call
UpTo(k, field, all) == IF k < Len(calls) THEN calls[k + 1][field] ELSE Len(all)
RowsOf(k) == SubSeq(capping_commands, calls[k].rows + 1, UpTo(k, "rows", capping_commands))
SetsOf(k) == SubSeq(applied, calls[k].sets + 1, UpTo(k, "sets", applied))
PostsOf(k) == SubSeq(launches, calls[k].posts + 1, UpTo(k, "posts", launches))
CapsOf(rows) == [i \in 1..Len(rows) |-> rows[i].cap_level]

\* C14: a run_test with a pause between cap settings that has returned has
\* logged and applied exactly the n_steps + 1 caps cap_from - i * step,
\* i = 0..n_steps, step = (cap_from - cap_to) / n_steps (400, 600, 800, 1000
\* for 400 -> 1000 in 3 steps), and has sent n_steps launch requests, the j-th
\* after the j-th cap and before the (j+1)-th cap is logged.
PauseModeCaps ==
    \A k \in 1..returned :
        LET t == calls[k].args
            step == (t.cap_from - t.cap_to) \div t.n_steps
            expected == [i \in 1..(t.n_steps + 1) |-> t.cap_from - (i - 1) * step]
        IN  t.pause =>
              /\ CapsOf(RowsOf(k)) = expected
              /\ CapsOf(SetsOf(k)) = expected
              /\ (t.cap_from = 400 /\ t.cap_to = 1000 /\ t.n_steps = 3)
                    => CapsOf(RowsOf(k)) = <<400, 600, 800, 1000>>
              /\ Len(PostsOf(k)) = t.n_steps
              /\ \A j \in 1..t.n_steps :
                    /\ RowsOf(k)[j].timestamp <= isoformat_ms(PostsOf(k)[j].at)
                    /\ SetsOf(k)[j].at <= PostsOf(k)[j].at
                    /\ isoformat_ms(PostsOf(k)[j].at) < RowsOf(k)[j + 1].timestamp

\* C14 witness: the trajectory 400 -> 1000 in 3 steps with a pause between cap
\* settings has returned.
PauseTrajectoryReturned ==
    \E k \in 1..returned :
        /\ calls[k].args.pause
        /\ calls[k].args.cap_from = 400
        /\ calls[k].args.cap_to = 1000
        /\ calls[k].args.n_steps = 3

\* C15: a run_test with the load running throughout that has returned has
\* logged and applied exactly n_steps + 1 caps, uncapped_power and then
\* cap_from - i * step for i = 0..n_steps - 1 (uncapped, 1000, 800, 600 for
\* 1000 -> 400 in 3 steps), and has sent one launch request, for warmup +
\* n_steps * per_step seconds, after the uncapped cap was applied and before
\* the first step was logged.
ContinuousModeCaps ==
    \A k \in 1..returned :
        LET t == calls[k].args
            step == (t.cap_from - t.cap_to) \div t.n_steps
            expected == <<uncapped_power>> \o
                        [i \in 1..t.n_steps |-> t.cap_from - (i - 1) * step]
        IN  ~t.pause =>
              /\ CapsOf(RowsOf(k)) = expected
              /\ CapsOf(SetsOf(k)) = expected
              /\ (t.cap_from = 1000 /\ t.cap_to = 400 /\ t.n_steps = 3)
                    => CapsOf(RowsOf(k)) = <<uncapped_power, 1000, 800, 600>>
              /\ Len(PostsOf(k)) = 1
              /\ PostsOf(k)[1].runtime_secs =
                    warmup_seconds + t.n_steps * per_step_runtime_seconds
              /\ PostsOf(k)[1].load_pct = t.load_pct
              /\ SetsOf(k)[1].at <= PostsOf(k)[1].at
              /\ isoformat_ms(PostsOf(k)[1].at) < RowsOf(k)[2].timestamp

\* C15 witness: the trajectory 1000 -> 400 in 3 steps with the load running
\* throughout has returned.
ContinuousTrajectoryReturned ==
    \E k \in 1..returned :
        /\ ~calls[k].args.pause
        /\ calls[k].args.cap_from = 1000
        /\ calls[k].args.cap_to = 400
        /\ calls[k].args.n_steps = 3

\* C16: for every two consecutive cap changes logged with different caps,
\* capping_commands also holds a row with the earlier cap, one millisecond
\* before the later change.
CapShadowRows ==
    \A i \in 1..(Len(capping_commands) - 1) :
        capping_commands[i].cap_level # capping_commands[i + 1].cap_level
        => \E j \in 1..Len(capping_commands) :
              capping_commands[j] =
                  [timestamp |-> capping_commands[i + 1].timestamp - 1,
                   cap_level |-> capping_commands[i].cap_level]

\* C17: the run_test calls that returned have written one tests row each, in
\* order, carrying the call's cap_from, cap_to, n_steps, load_pct and pause
\* flag, with start_time <= end_time; every capping_commands row of the call
\* lies in [start_time, end_time], and there is at least one per step.
OneTestRowPerTrajectory ==
    /\ Len(tests) = returned
    /\ \A k \in 1..returned :
          LET t == calls[k].args
              row == tests[k]
          IN  /\ row.cap_from = t.cap_from
              /\ row.cap_to = t.cap_to
              /\ row.n_steps = t.n_steps
              /\ row.load_pct = t.load_pct
              /\ row.pause_load_between_cap_settings = t.pause
              /\ row.start_time <= row.end_time
              /\ Len(RowsOf(k)) >= t.n_steps
              /\ \A i \in 1..Len(RowsOf(k)) :
                    /\ row.start_time <= RowsOf(k)[i].timestamp
                    /\ RowsOf(k)[i].timestamp <= row.end_time

\* C17 witness: a trajectory with a pause and one without have both returned
\* and their tests rows are written.
TwoTrajectoriesLogged ==
    /\ Len(tests) >= 2
    /\ \E k1, k2 \in 1..returned :
          calls[k1].args.pause /\ ~calls[k2].args.pause

\* the preconditions of a campaign as the specification lists them
ListedPreconditions(a) ==
    /\ a.min_load <= a.max_load
    /\ a.cap_min < a.cap_max
    /\ a.cap_delta > 0
    /\ a.load_delta > 0 \/ a.min_load = a.max_load

\* the load values min_load, min_load + load_delta, ..., max_load; the single
\* value min_load when load_delta = 0
LoadValues(a) ==
    IF a.load_delta = 0 THEN {a.min_load}
    ELSE {l \in a.min_load..a.max_load : (l - a.min_load) % a.load_delta = 0}

\* the trajectories of the campaign matrix: load x pause x selected direction
CampaignMatrix(a) ==
    LET n_steps == (a.cap_max - a.cap_min) \div a.cap_delta IN
    {[cap_from |-> d[1], cap_to |-> d[2], n_steps |-> n_steps,
      load_pct |-> l, pause |-> p] :
        l \in LoadValues(a), p \in BOOLEAN,
        d \in (IF goes_up(a.up_down) THEN {<<a.cap_min, a.cap_max>>} ELSE {})
              \cup (IF goes_down(a.up_down) THEN {<<a.cap_max, a.cap_min>>} ELSE {})}

\* C19: once run_campaign has returned for a campaign that satisfies the
\* preconditions, run_test has been called exactly once for every trajectory
\* of the campaign matrix.
CampaignRunsMatrixOnce ==
    (r_ci = 1 /\ r_pc = "idle" /\ ListedPreconditions(campaigns[1]))
    => \A e \in CampaignMatrix(campaigns[1]) :
          Cardinality({k \in 1..Len(calls) :
              /\ calls[k].args.cap_from = e.cap_from
              /\ calls[k].args.cap_to = e.cap_to
              /\ calls[k].args.n_steps = e.n_steps
              /\ calls[k].args.load_pct = e.load_pct
              /\ calls[k].args.pause = e.pause}) = 1

\* nothing has been run, commanded or written
NothingDone ==
    /\ calls = <<>>
    /\ applied = <<>>
    /\ launches = <<>>
    /\ capping_commands = <<>>
    /\ tests = <<>>

TimestampsIncreasePerWriter ==
    /\ \A i \in 1..(Len(bmc) - 1) : bmc[i].timestamp < bmc[i + 1].timestamp
    /\ \A i \in 1..(Len(capping_commands) - 1) :
          capping_commands[i].timestamp < capping_commands[i + 1].timestamp

\* C12 witness: the collector has written two bmc rows and the runner has
\* written the rows of two trajectories.
BothWritersWroteRows ==
    /\ Len(bmc) >= 2
    /\ returned >= 2
    /\ Len(capping_commands) >= 4

\* C18: for every tests row at least one bmc row has its timestamp in the
\* test's [start_time, end_time] interval.
EveryTestHasBmcSamples ==
    \A k \in 1..Len(tests) :
        \E j \in 1..Len(bmc) :
            /\ tests[k].start_time <= isoformat_ms(bmc[j].timestamp)
            /\ isoformat_ms(bmc[j].timestamp) <= tests[k].end_time

\* C21: once the start of main has inserted its system_info row, the table
\* holds exactly one row: no later step of the runner or of the collector
\* inserts another.
ExactlyOneSystemInfoRow ==
    (\E i \in 1..Len(system_info) : system_info[i].by = "runner")
        => Len(system_info) = 1

\* the exit paths of main: it returned, or an exception left it
main_exited == driver = "main" /\ (d_pc = "done" \/ main_raised)

\* C24: when main has exited, normally or by an exception, the BMC holds no
\* session open: every session a connect established has been released.
SessionsReleasedAtExit == main_exited => bmc_sessions = {}

\* C25: when a failing set_cap_level has raised out of the campaign and main,
\* the collector has been stopped: its flag is flipped or its thread is over.
FatalBmcErrorStopsCollector ==
    (main_raised /\ r_pc = "raised" /\ r_error = "bmc")
        => (~do_collect \/ c_pc \in {"returned", "raised"})

\* C26: when a trajectory has applied a cap, the runner has activated capping
\* on the BMC, in a call made after the collector thread was spawned.
CappingActivatedBeforeFirstCap ==
    applied # <<>> =>
        \E i \in 1..Len(b_calls) :
            /\ b_calls[i].op = "activate_capping"
            /\ b_calls[i].by = "runner"
            /\ b_calls[i].outcome = "returned"
            /\ b_calls[i].main_at = "busy"

(***************************************************************************)
(* Claims about the BMC endpoints (under BmcSpec)                          *)
(***************************************************************************)
\* the chassis lookup of the call failed, which raises before anything else
ChassisLookupFailed(call) == call.method = "GET" /\ ~ok(call.status)

\* C22: a Redfish activate_capping or deactivate_capping whose chassis lookup
\* did not fail sends its PATCH and ends as the BMC answered it: it returns on
\* 2xx and on 404, and raises RuntimeError on any other answer.
RedfishCappingToleratesOnly404 ==
    \A i \in 1..Len(b_calls) :
        (/\ bmc_type = "redfish"
         /\ b_calls[i].op \in {"activate_capping", "deactivate_capping"}
         /\ ~ChassisLookupFailed(b_calls[i]))
        => /\ b_calls[i].method = "PATCH"
           /\ b_calls[i].outcome =
                 IF ok(b_calls[i].status) \/ b_calls[i].status = 404
                 THEN "returned" ELSE "RuntimeError"

\* the call before call i on the same endpoint, None if there is none
PreviousCall(i) ==
    LET before == {j \in 1..(i - 1) : b_calls[j].by = b_calls[i].by}
    IN  IF before = {} THEN None ELSE CHOOSE j \in before : \A k \in before : k <= j

\* C23: every disconnect returns and leaves the endpoint without token and
\* session id, and a disconnect that follows a disconnect on the same endpoint
\* sends no request to the BMC.
DisconnectIdempotent ==
    \A i \in 1..Len(b_calls) :
        b_calls[i].op = "disconnect" =>
            /\ b_calls[i].outcome = "returned"
            /\ b_calls[i].token = None
            /\ b_calls[i].session_id = None
            /\ (PreviousCall(i) # None /\ b_calls[PreviousCall(i)].op = "disconnect")
                   => b_calls[i].sent = 0

(***************************************************************************)
(* Claims about the runner and the agent together (under RunnerSpec)       *)
(***************************************************************************)
\* C27: for every POST /firestarter the runner sends, the command line the
\* agent builds from the body has --load equal to the load_pct, --timeout
\* equal to the runtime_secs and --threads equal to the n_threads sent.
LoadGeneratorRunsAsRequested ==
    \A i \in 1..Len(launches) :
        LET command == command_line(firestarter_args(launches[i].load_pct,
                                                     launches[i].n_threads,
                                                     launches[i].runtime_secs))
        IN  /\ command.load = launches[i].load_pct
            /\ command.timeout = launches[i].runtime_secs
            /\ command.threads = launches[i].n_threads

(***************************************************************************)
(* Claims about GET /rapl_power (under RaplSpec and ServeSpec)             *)
(***************************************************************************)
\* the energy delta of a counter with ceiling M read as s and then as e
WrapDelta(s, e, M) == IF e > s THEN e - s ELSE (M - s) + e

\* C28: for every package of a /rapl_power response, with wrap ceiling M,
\* first reading s, second reading e and elapsed time dt, the energy delta
\* used is e - s when e > s and (M - s) + e otherwise, and the power reported
\* is that delta / dt * 1000.
RaplWrapCorrect ==
    \A p \in DOMAIN package_powers :
        LET row == package_powers[p]
            delta == WrapDelta(row.start_energy, row.end_energy, max_energy[p])
        IN  /\ row.energy_delta = delta
            /\ row.package_power_watts.num = delta * 1000
            /\ row.package_power_watts.den = row.time_delta_ns

\* C28 witness: a response in which the counter of one package went up and the
\* counter of another came back lower, after a window of more than the minimum.
RaplWrappedAndUnwrapped ==
    /\ package_powers # <<>>
    /\ \E p \in DOMAIN package_powers :
          package_powers[p].end_energy > package_powers[p].start_energy
    /\ \E p \in DOMAIN package_powers :
          /\ package_powers[p].end_energy < package_powers[p].start_energy
          /\ package_powers[p].time_delta_ns > 1

\* C29: the power of every package of a /rapl_power response is strictly
\* greater than 0, whatever the readings 0 <= s <= M and 0 <= e <= M.
RaplPowerPositive ==
    \A p \in DOMAIN package_powers :
        /\ package_powers[p].package_power_watts.den > 0
        /\ package_powers[p].package_power_watts.num > 0

\* C30: while a /rapl_power request is in its sampling window, the handler of
\* a request that is waiting (another /rapl_power, or the POST /firestarter)
\* can run: it does not have to wait for the first request to resume.
ResponsiveInSamplingWindow ==
    \A r \in RaplRequests :
        q_pc[r] = "window" =>
            /\ \A o \in RaplRequests \ {r} :
                  q_pc[o] = "new" => ENABLED rapl_power_enter(o)
            /\ h_pc[1] = "new" => ENABLED firestarter_enter(1)

\* the dict the output parser would build by splitting each line on its first
\* ':' only: key = trimmed text before it, value = trimmed rest, lines without
\* ':' dropped, the last line of a key winning
FirstColon(line) == CHOOSE i \in 1..Len(line) : line[i] = ":" /\ \A j \in 1..(i - 1) : line[j] # ":"
HasColon(line) == \E i \in 1..Len(line) : line[i] = ":"
SplitOnFirstColon(lines) ==
    LET kept == {i \in 1..Len(lines) : HasColon(lines[i])}
        key(i) == strip(SubSeq(lines[i], 1, FirstColon(lines[i]) - 1))
        value(i) == strip(SubSeq(lines[i], FirstColon(lines[i]) + 1, Len(lines[i])))
    IN  [k \in {key(i) : i \in kept} |->
            value(CHOOSE i \in kept : key(i) = k /\ \A j \in kept : key(j) = k => j <= i)]

\* C34: the IPMI output parser splits each line on the first ':' only: a line
\* whose value itself contains ':' yields key = trimmed text before the first
\* ':' and value = trimmed rest, lines with no ':' are dropped, and for a
\* duplicated key the last line wins.
ParserSplitsOnFirstColon ==
    (ipmi_proc.pc = "returned" /\ ipmi_proc.result.ok)
    => ipmi_proc.result.bmc_dict = SplitOnFirstColon(ipmi_proc.stdout)

CapChanged(call) == call.op = "set_cap_level" /\ call.outcome = "returned"
CapSetRoundTrip ==
    \A i, j \in 1..Len(b_calls) :
       (/\ i < j
        /\ CapChanged(b_calls[i])
        /\ \A k \in (i + 1)..(j - 1) : ~CapChanged(b_calls[k])
        /\ b_calls[j].op = "current_cap_level"
        /\ b_calls[j].outcome = "returned")
       => b_calls[j].result = b_calls[i].arg

\* C33: after one successful chassis enumeration the chassis list is cached on
\* the Redfish endpoint: every later current_power, current_cap_level,
\* set_cap_level and activate/deactivate call resolves the motherboard without
\* another GET /Chassis, and a failed enumeration caches nothing.
ChassisRequest(r) == r.method = "GET" /\ r.path = "Chassis"
ChassisListCached ==
    /\ \A i, j \in 1..Len(bmc_requests) :
          (/\ i < j
           /\ bmc_requests[i].by = bmc_requests[j].by
           /\ ChassisRequest(bmc_requests[i])
           /\ ChassisRequest(bmc_requests[j]))
          => ~ok(bmc_requests[i].status)
    /\ \A e \in Endpoints :
          _chassis[e].cached
          <=> \E i \in 1..Len(bmc_requests) :
                 /\ bmc_requests[i].by = e
                 /\ ChassisRequest(bmc_requests[i])
                 /\ ok(bmc_requests[i].status)

\* C33: an endpoint whose first enumeration failed enumerated again, and its
\* next call set the cap with the one PATCH
ChassisFetchedOnceAfterFailure ==
    /\ bmc_type = "redfish"
    /\ Len(b_calls) = 3
    /\ \A k \in 1..3 : b_calls[k].by = "runner"
    /\ b_calls[1].outcome = "RuntimeError" /\ b_calls[1].sent = 1
    /\ ~ok(b_calls[1].status)
    /\ b_calls[2].sent = 2
    /\ b_calls[3].op = "set_cap_level" /\ b_calls[3].outcome = "returned"
    /\ b_calls[3].sent = 1
\* C35: for every campaign that passes the campaign preconditions, every
\* run_test call made by run_campaign receives n_steps >= 1, so run_test's own
\* n_steps assertion never fails in the middle of a campaign.
RunTestGetsAtLeastOneStep ==
    /\ \A k \in 1..Len(calls) : calls[k].args.n_steps >= 1
    /\ ~(r_pc = "raised" /\ r_error = "AssertionError")
\* C36: every cap level that run_test logs and applies, other than the
\* uncapped_power pseudo-cap, lies between cap_from and cap_to inclusive, in
\* both directions (up and down) and also when cap_from - cap_to is not a
\* multiple of n_steps.
Between(cap, a, b) == (a <= cap /\ cap <= b) \/ (b <= cap /\ cap <= a)
CapsBetweenFromAndTo ==
    \A k \in 1..Len(calls) :
        LET t == calls[k].args
            caps == CapsOf(RowsOf(k)) \o CapsOf(SetsOf(k))
        IN  \A i \in 1..Len(caps) :
               caps[i] # uncapped_power => Between(caps[i], t.cap_from, t.cap_to)
\* C38: every set_cap_level call issued by run_test is paired with exactly one
\* capping_commands row carrying the same cap level, inserted immediately
\* before the call; at any moment the number of such rows equals the number of
\* set_cap_level calls issued so far or exceeds it by one.
SetCapAwaits == {"pause_set_cap_from", "pause_set_cap_level", "set_uncapped", "set_cap_level"}
SetCapIssued ==
    Len(applied)
    + (IF r_pc \in SetCapAwaits \/ (r_pc = "raised" /\ r_error = "bmc") THEN 1 ELSE 0)
EveryCapCommandLogged ==
    /\ Len(capping_commands) \in {SetCapIssued, SetCapIssued + 1}
    /\ \A i \in 1..Len(applied) :
          /\ capping_commands[i].cap_level = applied[i].cap_level
          /\ capping_commands[i].timestamp = isoformat_ms(applied[i].at - RunnerLatency)
    /\ r_pc \in SetCapAwaits =>
          /\ capping_commands[SetCapIssued].timestamp = isoformat_ms(r_until - RunnerLatency)
          /\ capping_commands[SetCapIssued].cap_level =
                CASE r_pc = "pause_set_cap_from" -> r_test.cap_from
                  [] r_pc = "set_uncapped" -> uncapped_power
                  [] OTHER -> cap_level

\* C38: three set_cap_level calls have returned and a fourth is awaited
FourthCapCommandIssued ==
    /\ Len(applied) = 3
    /\ r_pc \in SetCapAwaits
    /\ Len(capping_commands) = 4
\* C39: in pause-between mode, assuming the load generator exits when its
\* --timeout elapses, every cap change after the first happens while no load
\* generator is running: the load launched for a step has ended before that
\* step's new cap is logged and applied.
CapChangedWhileNoLoadRuns ==
    LET statuses == firestarter_statuses(Len(launches))
    IN  \A k \in 1..Len(calls) :
            calls[k].args.pause =>
               /\ \A j \in 2..Len(RowsOf(k)) :
                     /\ ~load_running(statuses, RowsOf(k)[j].timestamp)
                     /\ j - 1 <= Len(PostsOf(k))
                     /\ isoformat_ms(load_end(calls[k].posts + j - 1))
                           <= RowsOf(k)[j].timestamp
               /\ \A j \in 2..Len(SetsOf(k)) :
                     ~load_running(statuses, isoformat_ms(SetsOf(k)[j].at))

\* C39: a trajectory with a pause between cap settings has changed the cap
\* after each of its two loads
TwoLoadsEndedBeforeCapChange ==
    \E k \in 1..Len(calls) :
        /\ calls[k].args.pause
        /\ Len(PostsOf(k)) = 2
        /\ Len(SetsOf(k)) = 3
        /\ \A j \in 1..2 :
              firestarter_statuses(Len(launches))[calls[k].posts + j] = HTTP_202_ACCEPTED

\* C40: during a whole campaign, assuming the load generator exits when its
\* --timeout elapses, every load launch the runner sends to the agent is
\* accepted with 202: the runner never sends a launch while the previous load
\* is still running, within a trajectory or across consecutive trajectories.
EveryLaunchAccepted ==
    LET statuses == firestarter_statuses(Len(launches))
    IN  \A j \in 1..Len(launches) :
            /\ statuses[j] = HTTP_202_ACCEPTED
            /\ j > 1 => load_end(j - 1) <= launches[j].at

\* C40: the campaign has returned after launching loads in four trajectories,
\* with and without a pause between cap settings
CampaignLaunchedInEveryTrajectory ==
    /\ r_pc = "idle"
    /\ returned >= 4
    /\ \A k \in 1..returned : Len(PostsOf(k)) >= 1
    /\ \E k \in 1..returned : calls[k].args.pause /\ Len(PostsOf(k)) >= 2
    /\ \E k \in 1..(returned - 1) : ~calls[k].args.pause
\* C37: the timestamp stored with a tick's rows is the wall-clock time at which
\* that tick's sample requests were issued: it is never earlier than the tick
\* time the loop was waiting for, also when the loop had to sleep before the
\* tick.
StampedWhenSamplesIssued ==
    \A k \in 1..Len(samples) :
        LET issued_at == samples[k].ts + samples[k].slept
        IN  /\ bmc[k].timestamp = issued_at
            /\ \A p \in PackageIds :
                  rapl[(k - 1) * Len(Packages) + p].timestamp = issued_at
====
